---- MODULE Spec2Model ----
(***************************************************************************)
(* Model of piconfc: the PN532 I2C frame codec (piconfc_I2C.c), the        *)
(* command/ACK handshake, the PN532 command operations (piconfc_PN532.c),  *)
(* the TLV and NDEF record codec (piconfc_NDEF.c), the NTAG page reads     *)
(* (piconfc_NTAG.c) and piconfc_readNTAG (piconfc.c).                      *)
(*                                                                         *)
(* What the chip puts on the bus is a sequence of bytes (1-based): the      *)
(* status byte first, then the frame.  uint8_t arithmetic is reduced       *)
(* modulo 256 wherever the C code stores into a uint8_t.                   *)
(***************************************************************************)
EXTENDS Integers, Sequences, FiniteSets, TLC

VARIABLES
    \* ---- frame codec, exercised as pure functions
    stage,              \* which functions the behaviour exercises, and how far
    respkind,           \* "none" | "wellformed" | "flipped" | "raw"
    rawchk,             \* the three validations, on the buffer as it was read,
                        \* and the number of bytes that bus read asked for
    \* ---- shared by the codec and the protocol
    cmd,                \* the command payload handed to writecommand
    packet,             \* the bytes writecommand put on the bus
    resp,               \* the frame the chip answers with (no status byte)
    pad,                \* what the chip clocks out after the end of its frame
    expected_data_len,  \* parseresponse's third argument
    parse_ret,          \* parseresponse's return value
    scratch,            \* PicoNFCConfig.scratch, the buffer parseresponse works in
    \* ---- command/ACK handshake and PN532 operations
    op,                 \* the function the caller called
    pc,                 \* where that call stands
    timeout,            \* sendcommand_andack's timeout argument
    timer,              \* waitready's local counter
    polls,              \* status polls made so far by the ready-wait in progress
    wres,               \* what the first / the second waitready call returned
    wobs,               \* what the bus showed during the first / the second wait
    bus,                \* kinds of bus operations so far, repeats collapsed
    nwrites,            \* command frames written in this call
    nacks,              \* ACK reads made in this call
    ackbuf,             \* the six bytes readack compared
    hs_ret,             \* sendcommand_andack's return value (what the
                        \* write, wait and ACK of RFRegulationTest gave)
    rbuf_size,          \* size of the caller's buffer: receive of
                        \* initiatorDataExchange, uid of readPassiveTargetID
    receive,            \* that buffer
    received_length,    \* *received_length, *uid_len
    rx_written,         \* bytes the copy loop stored through receive / uid
    ret,                \* the operation's return value
    \* ---- TLV codec (piconfc_NDEF.c), exercised as pure functions
    tlv_data,           \* encodeTLV's data (datasize is its length)
    tlv_resultsize,     \* encodeTLV's resultsize
    tlv_encoded,        \* encodeTLV's return value
    tlv_buffer,         \* the tag image: encodeTLV's result, parseTLV's buffer
    tlv_bufsize,        \* parseTLV's bufsize
    tlv_start,          \* parseTLV's start
    tlv,                \* the struct TLV parseTLV fills, and what the call did
    \* ---- NDEF record codec (piconfc_NDEF.c), exercised as pure functions
    rec_args,           \* createRecord's tnf, type, id and payload
    rec_created,        \* createRecord's return value and *recordlen
    heap_ok,            \* whether malloc gave memory to the last call
    on_overflow,        \* whether the build's bounds check rejects on overflow
    ndef_buffer,        \* the buffer the record functions read
    ndef_bufsize,       \* their bufsize
    ndef_offset,        \* parseRecord's offset
    ndef_record,        \* what the parseRecord call left
    ndef_count,         \* what the messageLen call left
    ndef_message,       \* what the parseMessage call left
    ndef_string,        \* what the readPayloadString call left
    \* ---- NTAG page reads (piconfc_NTAG.c) and piconfc_readNTAG (piconfc.c)
    ntag,               \* the tag in the field: model byte, user memory, and
                        \* the page read that fails (if any) and how
    ntag_bufsize,       \* readUserPages' bufsize
    ntag_pages,         \* what the readUserPages call left
    ntag_string         \* what the readNTAG call left

codecvars == <<stage, respkind, rawchk>>
sharedvars == <<cmd, packet, resp, pad, expected_data_len, parse_ret, scratch>>
hsvars == <<timeout, timer, polls, wres, wobs, bus, nwrites, nacks, ackbuf, hs_ret>>
opvars == <<op, pc, rbuf_size, receive, received_length, rx_written, ret>>
tlvvars == <<tlv_data, tlv_resultsize, tlv_encoded, tlv_buffer, tlv_bufsize,
             tlv_start, tlv>>
recvars == <<rec_args, rec_created, heap_ok, on_overflow, ndef_buffer,
             ndef_bufsize,
             ndef_offset, ndef_record, ndef_count, ndef_message, ndef_string>>
ntagvars == <<ntag, ntag_bufsize, ntag_pages, ntag_string>>
ndefvars == <<tlvvars, recvars, ntagvars>>
vars == <<codecvars, sharedvars, hsvars, opvars, ndefvars>>

(***************************************************************************)
(* Program constants                                                       *)
(***************************************************************************)
PN532_PREAMBLE == 0
PN532_STARTCODE1 == 0
PN532_STARTCODE2 == 255
PN532_POSTAMBLE == 0
PN532_HOSTTOPN532 == 212
PN532_PN532TOHOST == 213
PN532_I2C_BUSY == 0
PN532_I2C_READY == 1
ScratchSize == 1024
DEFAULT_TIMEOUT == 5000
PN532_COMMAND_SAMCONFIGURATION == 20
PN532_COMMAND_INDATAEXCHANGE == 64
PN532_COMMAND_GETFIRMWAREVERSION == 2
PN532_COMMAND_RFCONFIGURATION == 50
PN532_COMMAND_INLISTPASSIVETARGET == 74
PN532_BAUD_ISO14443A == 0
PN532_COMMAND_RFREGULATIONTEST == 88
NXP_CMD_READ == 48
NXP_CMD_FASTREAD == 58
NXP_CMD_WRITE == 160
NTAG_PAGE_SIZE == 4
MODEL_NTAG213 == 18
MODEL_NTAG215 == 62
MODEL_NTAG216 == 109
PN532_ACK == <<0, 0, 255, 0, 255, 0>>

(***************************************************************************)
(* Bounds of the model                                                     *)
(***************************************************************************)
\* Payloads of every length 0..MaxPayloadLen over ByteSamples are enumerated.
MaxPayloadLen == 2
\* timeouts 0..MaxTimeout are passed to sendcommand_andack when it is called
\* on its own
MaxTimeout == 2
\* with timeout = 0 the wait is unbounded: the model follows it for this many
\* polls
MaxPolls == 4
\* receive buffers of 0..MaxRbuf bytes, tag data of 0..MaxTagData bytes
MaxRbuf == 2
MaxTagData == 3
\* Long payloads are ramps; their lengths sit at the edges of the uint8_t
\* arithmetic on "8 + expected_data_len" and "cmdlen + 1".
LongLens == {247, 248, 250, 254}
ByteSamples == {0, 1, 127, 255}

Byte == 0..255
U8(x) == x % 256
Max(a, b) == IF a >= b THEN a ELSE b

(***************************************************************************)
(* A uint8_t buffer (scratch, ackbuf) is kept as the bytes of its leading  *)
(* cells plus the one value all cells after them hold: cell i (0-based, as *)
(* in C) is bytes[i+1] for i < Len(bytes) and rest elsewhere.  Every index *)
(* the code uses on scratch is below 261, inside its ScratchSize cells.    *)
(* A negative index reads the memory in front of the buffer, whose cells   *)
(* all hold before.                                                        *)
(***************************************************************************)
Memory(bytes, before, rest) ==
    [bytes |-> bytes, rest |-> rest, before |-> before]
Buffer(bytes, rest) == Memory(bytes, rest, rest)
At(buffer, i) ==
    IF i < 0 THEN buffer.before
    ELSE IF i < Len(buffer.bytes) THEN buffer.bytes[i + 1]
    ELSE buffer.rest
\* the buffer whose first n cells are given by cells and the others by buffer
Stored(buffer, n, cells) ==
    Memory([k \in 1..Max(n, Len(buffer.bytes)) |->
               IF k <= n THEN cells[k] ELSE buffer.bytes[k]] \o <<>>,
           buffer.before, buffer.rest)
\* C's ~ on an int (two's complement)
BitNot(x) == (0 - x) - 1

(***************************************************************************)
(* Bit helpers, used by the environment to flip one bit of a byte          *)
(***************************************************************************)
RECURSIVE Pow2(_)
Pow2(k) == IF k = 0 THEN 1 ELSE 2 * Pow2(k - 1)
BitOf(b, k) == (b \div Pow2(k)) % 2
FlipBitOf(b, k) == IF BitOf(b, k) = 1 THEN b - Pow2(k) ELSE b + Pow2(k)
\* b | (1 << k)
SetBitOf(b, k) == IF BitOf(b, k) = 1 THEN b ELSE b + Pow2(k)

(***************************************************************************)
(* piconfc_I2C_writecommand: the packet handed to i2c_write_blocking       *)
(***************************************************************************)
\* uint8_t sum of f[lo..hi], f a sequence.  The C loops add one byte at a time into a
\* uint8_t; addition modulo 256 is associative, so the range is summed by
\* halves, which keeps the evaluation shallow for ranges of 255 bytes.
RECURSIVE SumU8(_, _, _)
SumU8(f, lo, hi) ==
    IF lo > hi THEN 0
    ELSE IF lo = hi THEN U8(f[lo])
    ELSE LET mid == (lo + hi) \div 2
         IN  U8(SumU8(f, lo, mid) + SumU8(f, mid + 1, hi))

\* the loop "checksum_val += cmd[i]" for i in 0..cmdlen-1 (cmd[i] is c[i+1])
CmdChecksum(c, cmdlen) == SumU8(c, 1, cmdlen)

\* writecommand with the direction byte left out of the data checksum
writecommand_dcs_without_direction(c, cmdlen) ==
    LET data_len == U8(cmdlen + 1)
        checksum_val == CmdChecksum(c, cmdlen)
    IN  <<PN532_PREAMBLE, PN532_STARTCODE1, PN532_STARTCODE2,
          data_len, U8(BitNot(data_len) + 1), PN532_HOSTTOPN532>>
        \o [i \in 1..cmdlen |-> c[i]]
        \o <<U8(BitNot(checksum_val) + 1), PN532_POSTAMBLE>>

piconfc_I2C_writecommand(c, cmdlen) ==
    LET data_len == U8(cmdlen + 1)
        checksum_val == CmdChecksum(c, cmdlen)
    IN  <<PN532_PREAMBLE, PN532_STARTCODE1, PN532_STARTCODE2,
          data_len, U8(BitNot(data_len) + 1), PN532_HOSTTOPN532>>
        \o [i \in 1..cmdlen |-> c[i]]
        \o <<U8(BitNot(PN532_HOSTTOPN532 + checksum_val) + 1), PN532_POSTAMBLE>>

(***************************************************************************)
(* The bus read: i2c_read_blocking(..., n) clocks n bytes out of the chip. *)
(* The chip sends one status byte, its frame, and then pad bytes.          *)
(***************************************************************************)
BusRead(status, frame, padbyte, n) ==
    [i \in 1..n |-> IF i = 1 THEN status
                    ELSE IF i - 1 <= Len(frame) THEN frame[i - 1]
                    ELSE padbyte]

(***************************************************************************)
(* piconfc_I2C_readdata: len is a uint8_t; len + 1 bytes are read and the  *)
(* first one (RDY) is dropped.  Returns the buffer afterwards.             *)
(***************************************************************************)
\* the number of bytes readdata asks i2c_read_blocking for
ReadLength(len) == len + 1

piconfc_I2C_readdata(status, frame, padbyte, buffer, len) ==
    LET rbuff == BusRead(status, frame, padbyte, ReadLength(len))
    IN  Stored(buffer, len, [k \in 1..len |-> rbuff[k + 1]])

(***************************************************************************)
(* piconfc_I2C_parseresponse                                               *)
(***************************************************************************)
\* The loop "for (i = 1; i < len; i++) { buffer[i-1] = buffer[5+i];
\* sum += buffer[5+i]; }".  Iteration i writes index i-1 and reads index
\* 5+i, which no earlier iteration wrote (they wrote indices below i-1), so
\* every read sees the buffer as it was before the loop: the buffer after
\* the loop is given index by index, and sum is the uint8_t sum of the bytes
\* read.
CompactLoop(buffer, sum, len) ==
    LET bytesread == [i \in 1..(len - 1) |-> At(buffer, 5 + i)]
    IN  [buffer |-> Stored(buffer, len - 1, bytesread),
         sum |-> U8(sum + SumU8(bytesread, 1, len - 1))]

\* the value returned
ParseReturn(len) == U8(len - 1)

\* [ret |-> the uint8_t returned, buffer |-> the buffer afterwards]
piconfc_I2C_parseresponse(status, frame, padbyte, buffer0, expected) ==
    LET buffer == piconfc_I2C_readdata(status, frame, padbyte, buffer0,
                                       U8(8 + expected))
        len == At(buffer, 3)
        checksum == U8(len + At(buffer, 4))
        direction == At(buffer, 5)
        loop == CompactLoop(buffer, U8(0 + direction), len)
        sum == U8(loop.sum + At(loop.buffer, 5 + len))
    IN  IF At(buffer, 0) # PN532_PREAMBLE \/ At(buffer, 1) # PN532_STARTCODE1
           \/ At(buffer, 2) # PN532_STARTCODE2
        THEN [ret |-> 0, buffer |-> buffer]
        ELSE IF checksum # 0
        THEN [ret |-> 0, buffer |-> buffer]
        ELSE IF sum # 0
        THEN [ret |-> 0, buffer |-> loop.buffer]
        ELSE [ret |-> ParseReturn(len), buffer |-> loop.buffer]

(***************************************************************************)
(* Inputs of the codec and the chip's side of the bus                      *)
(***************************************************************************)
ShortPayloads == UNION {[1..n -> ByteSamples] : n \in 0..MaxPayloadLen}
Ramp(n) == [i \in 1..n |-> (3 * i) % 256] \o <<>>
LongPayloads == {Ramp(n) : n \in LongLens}
Payloads == ShortPayloads \cup LongPayloads

\* sum of f[lo..hi] as an integer, by halves
RECURSIVE RangeSum(_, _, _)
RangeSum(f, lo, hi) ==
    IF lo > hi THEN 0
    ELSE IF lo = hi THEN f[lo]
    ELSE LET mid == (lo + hi) \div 2
         IN  RangeSum(f, lo, mid) + RangeSum(f, mid + 1, hi)
SeqSum(s) == RangeSum(s, 1, Len(s))

\* The well-formed frame the chip answers with for payload P (PN532 user
\* manual, "normal information frame", direction PN532 to host).
ResponseFrame(P) ==
    <<PN532_PREAMBLE, PN532_STARTCODE1, PN532_STARTCODE2,
      U8(Len(P) + 1), U8(0 - (Len(P) + 1)), PN532_PN532TOHOST>>
    \o P
    \o <<U8(0 - (PN532_PN532TOHOST + SeqSum(P))), PN532_POSTAMBLE>>

\* Frames a chip (or a noisy bus) may answer with: 8 bytes with the header
\* fields drawn from values at the edges of the three validations.
RawFrames ==
    {<<p0, 0, 255, l, c, d, x, y>> :
        p0 \in {0, 1}, l \in {0, 1, 2}, c \in {0, 254, 255},
        d \in {0, 128, 213}, x \in {0, 43}, y \in {0, 43, 85}}

PadBytes == {0, 255}

\* a buffer that holds the bytes of f from index 0 on, and zeros after them
FrameImage(f) == Buffer(f, 0)
\* What the caller's buffer may hold before a call: nothing, or the bytes an
\* earlier bus read left there.
StaleBuffers == {FrameImage(<<>>), FrameImage(ResponseFrame(<<75, 0>>))}

\* the data length a frame of this size carries
NaturalExpected(f) == IF Len(f) >= 8 THEN Len(f) - 8 ELSE 0
\* another expected_data_len the caller may pass for the same frame
OtherExpected == 5
ExpectedLens(f) == {NaturalExpected(f), OtherExpected}

\* positions (1-based, within the payload) whose bits are flipped
FlipPositions(n) == IF n <= MaxPayloadLen + 1 THEN 1..n ELSE {1, n}

\* The three validations of a response and its direction byte, stated on the
\* buffer as it was read:
\* direction is buffer[5], the payload is buffer[6..4+LEN], DCS is buffer[5+LEN].
FrameChecks(buffer) ==
    LET LEN == At(buffer, 3)
        payload == [k \in 1..(LEN - 1) |-> At(buffer, 5 + k)]
    IN  [pre |-> At(buffer, 0) = 0 /\ At(buffer, 1) = 0 /\ At(buffer, 2) = 255,
         lcs |-> (LEN + At(buffer, 4)) % 256 = 0,
         dcs |-> (At(buffer, 5) + SeqSum(payload) + At(buffer, 5 + LEN)) % 256 = 0,
         len |-> LEN,
         dir |-> At(buffer, 5)]
NoChecks == [pre |-> FALSE, lcs |-> FALSE, dcs |-> FALSE, len |-> 0, dir |-> 0]
\* marks an output parameter or a buffer cell the callee has not stored to
Unset == 0 - 1

\* no call of the TLV or record codec is made
NoTLV ==
    /\ tlv_data = <<>> /\ tlv_resultsize = 0 /\ tlv_encoded = Unset
    /\ tlv_buffer = Buffer(<<>>, 0) /\ tlv_bufsize = 0 /\ tlv_start = 0
    /\ tlv = <<>>
NoRecords ==
    /\ rec_args = <<>> /\ rec_created = <<>>
    /\ heap_ok = TRUE /\ on_overflow = FALSE
    /\ ndef_buffer = Buffer(<<>>, 0) /\ ndef_bufsize = 0 /\ ndef_offset = 0
    /\ ndef_record = <<>> /\ ndef_count = <<>> /\ ndef_message = <<>>
    /\ ndef_string = <<>>
NoNTAG ==
    /\ ntag = <<>> /\ ntag_bufsize = 0 /\ ntag_pages = <<>> /\ ntag_string = <<>>
NoNDEF == NoTLV /\ NoRecords /\ NoNTAG

(***************************************************************************)
(* Specification of the codec: inputs are drawn in Init, the actions apply *)
(* writecommand and parseresponse to them.                                 *)
(***************************************************************************)
\* nothing observed on the bus yet for a ready-wait
NoObs == [ready |-> FALSE, count |-> "none"]

\* no call of the protocol layer is in progress
NoCall ==
    /\ op = "none" /\ pc = "idle"
    /\ timeout = 0 /\ timer = 0
    /\ polls = 0 /\ wres = <<"none", "none">> /\ wobs = <<NoObs, NoObs>>
    /\ bus = <<>> /\ nwrites = 0 /\ nacks = 0 /\ ackbuf = <<>>
    /\ hs_ret = "none"
    /\ rbuf_size = 0 /\ receive = <<>> /\ received_length = Unset
    /\ rx_written = 0 /\ ret = "none"

CodecInit ==
    /\ NoCall
    /\ NoNDEF
    /\ scratch \in StaleBuffers
    /\ packet = <<>>
    /\ pad = 0
    /\ expected_data_len = 0
    /\ rawchk = NoChecks
    /\ parse_ret = 0
    /\ \/ /\ stage = "input"
          /\ cmd \in Payloads
          /\ resp = <<>>
          /\ respkind = "none"
       \/ /\ stage = "answered"
          /\ cmd = <<>>
          /\ resp \in RawFrames
          /\ respkind = "raw"

\* the host sends cmd
WriteCommand ==
    /\ stage = "input"
    /\ packet' = piconfc_I2C_writecommand(cmd, Len(cmd))
    /\ stage' = "written"
    /\ UNCHANGED <<ndefvars, cmd, resp, respkind, pad, expected_data_len, rawchk,
                   parse_ret, scratch, hsvars, opvars>>

\* the chip answers with the well-formed response frame carrying cmd's bytes
ChipAnswers ==
    /\ stage = "written"
    /\ resp' = ResponseFrame(cmd)
    /\ respkind' = "wellformed"
    /\ stage' = "answered"
    /\ UNCHANGED <<ndefvars, cmd, packet, pad, expected_data_len, rawchk, parse_ret,
                   scratch, hsvars, opvars>>

\* one bit of one payload byte changes on the way
FlipBit ==
    /\ stage = "answered"
    /\ respkind = "wellformed"
    /\ \E j \in FlipPositions(Len(cmd)), k \in 0..7 :
          resp' = [resp EXCEPT ![6 + j] = FlipBitOf(resp[6 + j], k)]
    /\ respkind' = "flipped"
    /\ UNCHANGED <<ndefvars, stage, cmd, packet, pad, expected_data_len, rawchk,
                   parse_ret, scratch, hsvars, opvars>>

\* the host reads and validates the response
ParseResponse ==
    /\ stage = "answered"
    /\ \E e \in ExpectedLens(resp), p \in PadBytes :
          LET r == piconfc_I2C_parseresponse(PN532_I2C_READY, resp, p, scratch, e)
              raw == piconfc_I2C_readdata(PN532_I2C_READY, resp, p, scratch,
                                          U8(8 + e))
          IN  /\ expected_data_len' = e
              /\ pad' = p
              /\ scratch' = r.buffer
              /\ parse_ret' = r.ret
              /\ rawchk' = FrameChecks(raw) @@ [nread |-> ReadLength(U8(8 + e))]
    /\ stage' = "parsed"
    /\ UNCHANGED <<ndefvars, cmd, packet, resp, respkind, hsvars, opvars>>

CodecNext == WriteCommand \/ ChipAnswers \/ FlipBit \/ ParseResponse

SpecCodec == CodecInit /\ [][CodecNext]_vars

(***************************************************************************)
(* piconfc_I2C_isready, piconfc_I2C_waitready                              *)
(***************************************************************************)
piconfc_I2C_isready(rdy) == rdy = PN532_I2C_READY

\* waitready that gives up one poll early
waitready_off_by_one(rdy, timeout_, timer_) ==
    IF piconfc_I2C_isready(rdy) THEN [res |-> "true", timer |-> timer_]
    ELSE IF timeout_ # 0
         THEN IF timer_ + 1 >= timeout_
              THEN [res |-> "false", timer |-> timer_ + 1]
              ELSE [res |-> "sleep", timer |-> timer_ + 1]
         ELSE [res |-> "sleep", timer |-> timer_]

\* waitready without the "timeout != 0" test
waitready_zero_is_immediate(rdy, timeout_, timer_) ==
    IF piconfc_I2C_isready(rdy) THEN [res |-> "true", timer |-> timer_]
    ELSE IF timer_ + 1 > timeout_
         THEN [res |-> "false", timer |-> timer_ + 1]
         ELSE [res |-> "sleep", timer |-> timer_ + 1]

\* One pass of waitready's while loop, on the status byte rdy just polled:
\* "true" and "false" are the value returned, "sleep" is sleep_ms(1) and
\* another pass.  timer is the local counter.
piconfc_I2C_waitready(rdy, timeout_, timer_) ==
    IF piconfc_I2C_isready(rdy) THEN [res |-> "true", timer |-> timer_]
    ELSE IF timeout_ # 0
         THEN IF timer_ + 1 > timeout_
              THEN [res |-> "false", timer |-> timer_ + 1]
              ELSE [res |-> "sleep", timer |-> timer_ + 1]
         ELSE [res |-> "sleep", timer |-> timer_]

(***************************************************************************)
(* piconfc_I2C_readack                                                     *)
(***************************************************************************)
\* [bytes |-> the six bytes in ackbuf, match |-> memcmp(...) == 0]
piconfc_I2C_readack(status, frame, padbyte) ==
    LET buf == piconfc_I2C_readdata(status, frame, padbyte, Buffer(<<>>, 0),
                                    Len(PN532_ACK))
    IN  [bytes |-> [i \in 1..Len(PN532_ACK) |-> At(buf, i - 1)],
         match |-> \A i \in 0..(Len(PN532_ACK) - 1) :
                      At(buf, i) = PN532_ACK[i + 1]]

(***************************************************************************)
(* piconfc_I2C_sendcommand_andack: where the function goes from position   *)
(* "at" when the check made there came out ok / not ok.  "true" and        *)
(* "false" are its return values.                                          *)
(***************************************************************************)
\* sendcommand_andack that sends the command again after a bad ACK
sendcommand_andack_resend(at, ok) ==
    CASE at = "write" -> "wait1"
      [] at = "wait1" -> IF ok THEN "readack" ELSE "false"
      [] at = "readack" -> IF ok THEN "wait2" ELSE "write"
      [] at = "wait2" -> IF ok THEN "true" ELSE "false"

\* sendcommand_andack that does not look at readack's result
sendcommand_andack_ignores_ack(at, ok) ==
    CASE at = "write" -> "wait1"
      [] at = "wait1" -> IF ok THEN "readack" ELSE "false"
      [] at = "readack" -> "wait2"
      [] at = "wait2" -> IF ok THEN "true" ELSE "false"

piconfc_I2C_sendcommand_andack(at, ok) ==
    CASE at = "write" -> "wait1"
      [] at = "wait1" -> IF ok THEN "readack" ELSE "false"
      [] at = "readack" -> IF ok THEN "wait2" ELSE "false"
      [] at = "wait2" -> IF ok THEN "true" ELSE "false"

\* piconfc_PN532_RFRegulationTest: writecommand, waitready with
\* DEFAULT_TIMEOUT, readack, in the same way: where the function goes from
\* position "at" when the check made there came out ok / not ok.
piconfc_PN532_RFRegulationTest(at, ok) ==
    CASE at = "write" -> "wait1"
      [] at = "wait1" -> IF ok THEN "readack" ELSE "false"
      [] at = "readack" -> IF ok THEN "true" ELSE "false"

(***************************************************************************)
(* The chip's side of the handshake                                        *)
(***************************************************************************)
\* status bytes a poll may read: BUSY, READY, and a byte that is neither
StatusBytes == {PN532_I2C_BUSY, PN532_I2C_READY, 128}
\* what the chip may send when the ACK is read: the ACK, the ACK with one of
\* its six bytes changed, and the NACK frame
AckFrames ==
    {PN532_ACK, <<0, 0, 255, 255, 0, 0>>}
    \cup {[PN532_ACK EXCEPT ![i] = (@ + 1) % 256] : i \in 1..Len(PN532_ACK)}
\* The chip while a function of piconfc_NTAG.c or piconfc_readNTAG runs: it
\* is ready at every poll, and it acknowledges a data exchange unless the
\* tag's failing exchange is this one (command[4] is the page the exchange
\* is about) and fails in the handshake, when it sends the NACK frame; the
\* detection of a target may go either way.
TagAcks(tag, command) ==
    IF command[1] = PN532_COMMAND_INDATAEXCHANGE
    THEN (IF tag.fail = command[4] /\ tag.how = "handshake"
          THEN {<<0, 0, 255, 255, 0, 0>>} ELSE {PN532_ACK})
    ELSE {PN532_ACK, <<0, 0, 255, 255, 0, 0>>}
\* what the chip may send in the call in progress
ChipStatuses ==
    IF stage = "protocol" THEN StatusBytes ELSE {PN532_I2C_READY}
ChipAcks == IF stage = "protocol" THEN AckFrames ELSE TagAcks(ntag, cmd)
\* commands handed to sendcommand_andack when it is called on its own
HandshakeCmds == {<<2>>, <<20, 1, 20, 0>>}

\* appends a kind of bus operation, unless it repeats the last one
Logged(log, kind) ==
    IF log # <<>> /\ log[Len(log)] = kind THEN log ELSE Append(log, kind)

\* what the bus showed in a ready-wait that ended at its n-th poll, which
\* read status s
Observed(n, s) ==
    [ready |-> s = PN532_I2C_READY,
     count |-> IF timeout = 0 THEN (IF n = 1 THEN "first" ELSE "later")
               ELSE IF n <= timeout THEN "under"
               ELSE IF n = timeout + 1 THEN "limit"
               ELSE "over"]

(***************************************************************************)
(* Steps of piconfc_I2C_sendcommand_andack                                 *)
(***************************************************************************)
\* leaves position "at" with the outcome ok of the check made there
HsGoto(at, ok) ==
    LET to == IF op = "RFRegulationTest"
              THEN piconfc_PN532_RFRegulationTest(at, ok)
              ELSE piconfc_I2C_sendcommand_andack(at, ok)
    IN  IF to \in {"true", "false"}
        THEN pc' = "hs_done" /\ hs_ret' = to
        ELSE pc' = to /\ hs_ret' = hs_ret

\* line 58: piconfc_I2C_writecommand(block, cmd, len)
HsWriteCommand ==
    /\ pc = "write"
    /\ packet' = piconfc_I2C_writecommand(cmd, U8(Len(cmd)))
    /\ nwrites' = nwrites + 1
    /\ bus' = Logged(bus, "write")
    /\ timer' = 0
    /\ polls' = 0
    /\ HsGoto("write", TRUE)
    /\ UNCHANGED <<ndefvars, codecvars, cmd, resp, pad, expected_data_len, parse_ret,
                   scratch, timeout, wres, wobs, nacks, ackbuf,
                   op, rbuf_size, receive, received_length, rx_written, ret>>

\* lines 61 and 75: one status poll of the w-th piconfc_I2C_waitready call
HsPoll(w) ==
    /\ pc = (IF w = 1 THEN "wait1" ELSE "wait2")
    /\ timeout = 0 => polls < MaxPolls
    /\ \E s \in ChipStatuses :
          LET r == piconfc_I2C_waitready(s, timeout, timer)
          IN  /\ bus' = Logged(bus, "poll")
              /\ IF r.res = "sleep"
                 THEN /\ timer' = r.timer
                      /\ polls' = polls + 1
                      /\ UNCHANGED <<ndefvars, pc, hs_ret, wres, wobs>>
                 ELSE /\ timer' = 0
                      /\ polls' = 0
                      /\ wres' = [wres EXCEPT ![w] = r.res]
                      /\ wobs' = [wobs EXCEPT ![w] = Observed(polls + 1, s)]
                      /\ HsGoto(pc, r.res = "true")
    /\ UNCHANGED <<ndefvars, codecvars, sharedvars, timeout, nwrites, nacks, ackbuf,
                   op, rbuf_size, receive, received_length, rx_written, ret>>

HsPoll1 == HsPoll(1)
HsPoll2 == HsPoll(2)

\* line 67: piconfc_I2C_readack(block)
HsReadAck ==
    /\ pc = "readack"
    /\ \E f \in ChipAcks, s \in ChipStatuses :
          LET r == piconfc_I2C_readack(s, f, 0)
          IN  /\ ackbuf' = r.bytes
              /\ HsGoto("readack", r.match)
    /\ nacks' = nacks + 1
    /\ bus' = Logged(bus, "ack")
    /\ UNCHANGED <<ndefvars, codecvars, sharedvars, timeout, timer, polls, wres, wobs,
                   nwrites, op, rbuf_size, receive, received_length,
                   rx_written, ret>>

(***************************************************************************)
(* Specification of the handshake: sendcommand_andack called on its own,   *)
(* with its arguments drawn in Init.                                       *)
(***************************************************************************)
HandshakeInit ==
    /\ NoNDEF
    /\ stage = "protocol" /\ respkind = "none" /\ rawchk = NoChecks
    /\ cmd \in HandshakeCmds
    /\ packet = <<>> /\ resp = <<>> /\ pad = 0
    /\ expected_data_len = 0 /\ parse_ret = 0
    /\ scratch = FrameImage(<<>>)
    /\ op = "sendcommand_andack" /\ pc = "write"
    /\ timeout \in 0..MaxTimeout
    /\ timer = 0
    /\ polls = 0 /\ wres = <<"none", "none">> /\ wobs = <<NoObs, NoObs>>
    /\ bus = <<>> /\ nwrites = 0 /\ nacks = 0 /\ ackbuf = <<>>
    /\ hs_ret = "none"
    /\ rbuf_size = 0 /\ receive = <<>> /\ received_length = Unset
    /\ rx_written = 0 /\ ret = "none"

HandshakeNext == HsWriteCommand \/ HsPoll1 \/ HsReadAck \/ HsPoll2

SpecHandshake == HandshakeInit /\ [][HandshakeNext]_vars

\* the caller's thread keeps running: a step that can be taken is taken
FairHandshake == SpecHandshake /\ WF_vars(HandshakeNext)

(***************************************************************************)
(* The PN532 command operations of piconfc_PN532.c                         *)
(***************************************************************************)
\* firmwareVersion's command (one byte)
FirmwareVersionCmd == <<PN532_COMMAND_GETFIRMWAREVERSION>>
\* the command buffer of setPassiveActivationRetries
PassiveActivationRetriesCmd(retries) ==
    <<PN532_COMMAND_RFCONFIGURATION, 5, 255, 1, retries>>
\* the command buffer of readPassiveTargetID
PassiveTargetCmd(baudrate) == <<PN532_COMMAND_INLISTPASSIVETARGET, 1, baudrate>>

\* the operation ignoring what sendcommand_andack returned
handshake_result_ignored(hs) == "parseresponse"

\* "if (!piconfc_I2C_sendcommand_andack(...)) return <failure>;", the test
\* every operation makes on the handshake's result hs before going on
AfterHandshake(hs) == IF hs = "true" THEN "parseresponse" ELSE "return"

\* the text of a float with one decimal, as firmwareVersion computes it
\* from tenths / 10.0 (tenths >= 0)
Tenths(tenths) == ToString(tenths \div 10) \o "." \o ToString(tenths % 10)

\* firmwareVersion after its call of parseresponse, whose result is r
piconfc_PN532_firmwareVersion(r) ==
    IF r.ret = 0 THEN "-1.0"
    ELSE Tenths(At(r.buffer, 2) * 10 + At(r.buffer, 3))

\* setPassiveActivationRetries after its call of parseresponse
piconfc_PN532_setPassiveActivationRetries(r) ==
    IF r.ret = 1 THEN "true" ELSE "false"

\* Where the caller keeps *uid_len: apart from uid, or in the byte right
\* after uid's last cell (as the locals uid[7], uid_len of piconfc_readNTAG
\* may lie).  It matters when the copy loop stores past the end of uid.
UidLayouts == {"apart", "adjacent"}

\* readPassiveTargetID after its call of parseresponse, whose result is r.
\* written is the number of bytes the copy loop stored through uid, inside
\* the caller's buffer or past its end.  The loop "for (i = 0; i < *uid_len;
\* i++) uid[i] = scratch[7 + i]" reads *uid_len on every pass: with the
\* adjacent layout the store to uid[size] replaces *uid_len by scratch[7 +
\* size], and the loop goes on up to that value.
piconfc_PN532_readPassiveTargetID(r, uid0, uid_len0, layout) ==
    LET len == r.ret
        n == At(r.buffer, 6)
        size == Cardinality(DOMAIN uid0)
        clobbered == layout = "adjacent" /\ n > size
        v == At(r.buffer, 7 + size)
        stored == IF clobbered THEN Max(size + 1, v) ELSE n
    IN  IF len = 0 \/ At(r.buffer, 1) = 0
        THEN [ret |-> "false", uid |-> uid0, uid_len |-> uid_len0,
              written |-> 0]
        ELSE [ret |-> "true",
              uid |-> [i \in DOMAIN uid0 |->
                          IF i < stored THEN At(r.buffer, 7 + i) ELSE uid0[i]],
              uid_len |-> IF clobbered THEN v ELSE n,
              written |-> stored]

\* the command buffer of SAMConfiguration
SAMConfigurationCmd == <<PN532_COMMAND_SAMCONFIGURATION, 1, 20, 0>>
\* cmdbuf of initiatorDataExchange: the command, card slot 1, then send
DataExchangeCmd(send) == <<PN532_COMMAND_INDATAEXCHANGE, 1>> \o send

\* SAMConfiguration after its call of parseresponse, whose result is r:
\* the value returned (len is not looked at)
piconfc_PN532_SAMConfiguration(r) ==
    IF At(r.buffer, 0) = 21 THEN "true" ELSE "false"

\* initiatorDataExchange after its call of parseresponse, whose result is r.
\* written is the number of bytes the copy loop stored through receive,
\* inside the caller's buffer or past its end.
piconfc_PN532_initiatorDataExchange(r, receive0, received_length0) ==
    LET len == r.ret
    IN  IF At(r.buffer, 0) # 65 \/ At(r.buffer, 1) # 0
        THEN [ret |-> "false", receive |-> receive0,
              received_length |-> received_length0, written |-> 0]
        ELSE [ret |-> "true",
              receive |-> [i \in DOMAIN receive0 |->
                              IF i + 2 < len THEN At(r.buffer, i + 2)
                              ELSE receive0[i]],
              received_length |-> U8(len - 2),
              written |-> IF len > 2 THEN len - 2 ELSE 0]

\* ---- the chip's answers
TagBytes == {4, 165}
TagData == UNION {[1..n -> TagBytes] : n \in 0..MaxTagData}
\* a frame with its data checksum, its length checksum or its start code off
BadDCS(f) == [f EXCEPT ![Len(f) - 1] = (@ + 1) % 256]
BadLCS(f) == [f EXCEPT ![5] = (@ + 1) % 256]
BadStart(f) == [f EXCEPT ![3] = 0]
Variants(f) == {f, BadDCS(f), BadLCS(f), BadStart(f)}
\* response payloads: the command echo (command + 1), then status and data
\* (for readPassiveTargetID: no target, one target with ATQA 00 44, SAK 00
\* and a UID of 7 bytes, and two that announce a UID of 10 bytes)
ResponsePayloads(o) ==
    CASE o = "SAMConfiguration" -> {<<21>>, <<22>>}
      [] o = "initiatorDataExchange" ->
            {<<65, st>> \o d : st \in {0, 1}, d \in TagData}
      [] o = "firmwareVersion" -> {<<3, 50, 1, 6, 7>>}
      [] o = "setPassiveActivationRetries" -> {<<51>>}
      [] o = "readPassiveTargetID" ->
            {<<75, 0>>, <<75, 1, 1, 0, 68, 0, 7, 4, 165, 4, 165, 4, 165, 4>>,
             <<75, 1, 1, 0, 68, 0, 10, 1, 2, 3, 4, 5, 6, 7, 8, 9, 10>>,
             <<75, 1, 1, 0, 68, 0, 10, 1, 2, 3, 4, 5, 6, 7, 3, 9, 10>>}
ChipResponses(o) == UNION {Variants(ResponseFrame(P)) : P \in ResponsePayloads(o)}
\* what the caller asks the tag: READ page 4
SendInputs == {<<NXP_CMD_READ, 4>>}

\* the retries and the timeout the caller passes
RetriesInputs == {0, 255}
TimeoutInputs == {500}
\* uid[7] of piconfc_readNTAG and piconfc_tagPresent
UidSize == 7

Ops == {"firmwareVersion", "SAMConfiguration", "setPassiveActivationRetries",
        "readPassiveTargetID", "initiatorDataExchange"}

\* the command buffer of RFRegulationTest
RFRegulationTestCmd == <<PN532_COMMAND_RFREGULATIONTEST, 0>>

\* lines 33..36: RFRegulationTest writes its command itself
RFRegulationTest_Call ==
    /\ pc = "call" /\ op = "RFRegulationTest"
    /\ cmd' = RFRegulationTestCmd
    /\ timeout' = DEFAULT_TIMEOUT
    /\ pc' = "write"
    /\ UNCHANGED <<ndefvars, codecvars, packet, resp, pad, expected_data_len, parse_ret,
                   scratch, timer, polls, wres, wobs, bus, nwrites, nacks,
                   ackbuf, hs_ret, op, rbuf_size, receive, received_length,
                   rx_written, ret>>

\* lines 42..54: RFRegulationTest returns false after a failed wait or a bad
\* ACK, true after the ACK
RFRegulationTest_Return ==
    /\ pc = "hs_done" /\ op = "RFRegulationTest"
    /\ ret' = hs_ret
    /\ pc' = "returned"
    /\ UNCHANGED <<ndefvars, codecvars, sharedvars, hsvars, op, rbuf_size, receive,
                   received_length, rx_written>>

\* lines 15..18
firmwareVersion_Call ==
    /\ pc = "call" /\ op = "firmwareVersion"
    /\ cmd' = FirmwareVersionCmd
    /\ timeout' = DEFAULT_TIMEOUT
    /\ pc' = "write"
    /\ UNCHANGED <<ndefvars, codecvars, packet, resp, pad, expected_data_len, parse_ret,
                   scratch, timer, polls, wres, wobs, bus, nwrites, nacks,
                   ackbuf, hs_ret, op, rbuf_size, receive, received_length,
                   rx_written, ret>>

\* lines 77..86
setPassiveActivationRetries_Call ==
    /\ pc = "call" /\ op = "setPassiveActivationRetries"
    /\ \E retries \in RetriesInputs : cmd' = PassiveActivationRetriesCmd(retries)
    /\ timeout' = DEFAULT_TIMEOUT
    /\ pc' = "write"
    /\ UNCHANGED <<ndefvars, codecvars, packet, resp, pad, expected_data_len, parse_ret,
                   scratch, timer, polls, wres, wobs, bus, nwrites, nacks,
                   ackbuf, hs_ret, op, rbuf_size, receive, received_length,
                   rx_written, ret>>

\* lines 96..103
readPassiveTargetID_Call ==
    /\ pc = "call" /\ op = "readPassiveTargetID"
    /\ cmd' = PassiveTargetCmd(PN532_BAUD_ISO14443A)
    /\ \E t \in TimeoutInputs : timeout' = t
    /\ pc' = "write"
    /\ UNCHANGED <<ndefvars, codecvars, packet, resp, pad, expected_data_len, parse_ret,
                   scratch, timer, polls, wres, wobs, bus, nwrites, nacks,
                   ackbuf, hs_ret, op, rbuf_size, receive, received_length,
                   rx_written, ret>>

\* lines 58..66: the command buffer, then sendcommand_andack with DEFAULT_TIMEOUT
SAMConfiguration_Call ==
    /\ pc = "call" /\ op = "SAMConfiguration"
    /\ cmd' = SAMConfigurationCmd
    /\ timeout' = DEFAULT_TIMEOUT
    /\ pc' = "write"
    /\ UNCHANGED <<ndefvars, codecvars, packet, resp, pad, expected_data_len, parse_ret,
                   scratch, timer, polls, wres, wobs, bus, nwrites, nacks,
                   ackbuf, hs_ret, op, rbuf_size, receive, received_length,
                   rx_written, ret>>

\* lines 139..145
initiatorDataExchange_Call ==
    /\ pc = "call" /\ op = "initiatorDataExchange"
    /\ \E send \in SendInputs : cmd' = DataExchangeCmd(send)
    /\ timeout' = DEFAULT_TIMEOUT
    /\ pc' = "write"
    /\ UNCHANGED <<ndefvars, codecvars, packet, resp, pad, expected_data_len, parse_ret,
                   scratch, timer, polls, wres, wobs, bus, nwrites, nacks,
                   ackbuf, hs_ret, op, rbuf_size, receive, received_length,
                   rx_written, ret>>

\* the value an operation returns when the handshake failed
FailureValue(o) == IF o = "firmwareVersion" THEN "-1.0" ELSE "false"

\* lines 18..20, 66..68, 86..88, 103..105 and 145..147: the handshake
\* failed, return the failure value
HandshakeFailed ==
    /\ pc = "hs_done" /\ op \in Ops /\ AfterHandshake(hs_ret) = "return"
    /\ ret' = FailureValue(op)
    /\ pc' = "returned"
    /\ UNCHANGED <<ndefvars, codecvars, sharedvars, hsvars, op, rbuf_size, receive,
                   received_length, rx_written>>

\* lines 71..73: parseresponse(..., 1), return scratch[0] == 0x15
SAMConfiguration_Response ==
    /\ pc = "hs_done" /\ op = "SAMConfiguration"
    /\ AfterHandshake(hs_ret) = "parseresponse"
    /\ \E f \in ChipResponses(op), p \in PadBytes :
          LET r == piconfc_I2C_parseresponse(PN532_I2C_READY, f, p, scratch, 1)
          IN  /\ resp' = f
              /\ pad' = p
              /\ expected_data_len' = 1
              /\ parse_ret' = r.ret
              /\ scratch' = r.buffer
              /\ ret' = piconfc_PN532_SAMConfiguration(r)
    /\ bus' = Logged(bus, "resp")
    /\ pc' = "returned"
    /\ UNCHANGED <<ndefvars, codecvars, cmd, packet, timeout, timer, polls, wres, wobs,
                   nwrites, nacks, ackbuf, hs_ret, op, rbuf_size, receive,
                   received_length, rx_written>>

\* lines 150..168: parseresponse(..., rbuf_size + 2), the checks, the copy
initiatorDataExchange_Response ==
    /\ pc = "hs_done" /\ op = "initiatorDataExchange"
    /\ AfterHandshake(hs_ret) = "parseresponse"
    /\ \E f \in ChipResponses(op), p \in PadBytes :
          LET e == U8(rbuf_size + 2)
              r == piconfc_I2C_parseresponse(PN532_I2C_READY, f, p, scratch, e)
              x == piconfc_PN532_initiatorDataExchange(r, receive,
                                                       received_length)
          IN  /\ resp' = f
              /\ pad' = p
              /\ expected_data_len' = e
              /\ parse_ret' = r.ret
              /\ scratch' = r.buffer
              /\ ret' = x.ret
              /\ receive' = x.receive
              /\ received_length' = x.received_length
              /\ rx_written' = x.written
    /\ bus' = Logged(bus, "resp")
    /\ pc' = "returned"
    /\ UNCHANGED <<ndefvars, codecvars, cmd, packet, timeout, timer, polls, wres, wobs,
                   nwrites, nacks, ackbuf, hs_ret, op, rbuf_size>>

\* lines 23..29: parseresponse(..., 5), the version or -1.0
firmwareVersion_Response ==
    /\ pc = "hs_done" /\ op = "firmwareVersion"
    /\ AfterHandshake(hs_ret) = "parseresponse"
    /\ \E f \in ChipResponses(op), p \in PadBytes :
          LET r == piconfc_I2C_parseresponse(PN532_I2C_READY, f, p, scratch, 5)
          IN  /\ resp' = f
              /\ pad' = p
              /\ expected_data_len' = 5
              /\ parse_ret' = r.ret
              /\ scratch' = r.buffer
              /\ ret' = piconfc_PN532_firmwareVersion(r)
    /\ bus' = Logged(bus, "resp")
    /\ pc' = "returned"
    /\ UNCHANGED <<ndefvars, codecvars, cmd, packet, timeout, timer, polls, wres, wobs,
                   nwrites, nacks, ackbuf, hs_ret, op, rbuf_size, receive,
                   received_length, rx_written>>

\* lines 91..92: parseresponse(..., 1), return len == 1
setPassiveActivationRetries_Response ==
    /\ pc = "hs_done" /\ op = "setPassiveActivationRetries"
    /\ AfterHandshake(hs_ret) = "parseresponse"
    /\ \E f \in ChipResponses(op), p \in PadBytes :
          LET r == piconfc_I2C_parseresponse(PN532_I2C_READY, f, p, scratch, 1)
          IN  /\ resp' = f
              /\ pad' = p
              /\ expected_data_len' = 1
              /\ parse_ret' = r.ret
              /\ scratch' = r.buffer
              /\ ret' = piconfc_PN532_setPassiveActivationRetries(r)
    /\ bus' = Logged(bus, "resp")
    /\ pc' = "returned"
    /\ UNCHANGED <<ndefvars, codecvars, cmd, packet, timeout, timer, polls, wres, wobs,
                   nwrites, nacks, ackbuf, hs_ret, op, rbuf_size, receive,
                   received_length, rx_written>>

\* lines 108..135: parseresponse(..., 20), the checks, the copy of the UID
readPassiveTargetID_Response ==
    /\ pc = "hs_done" /\ op = "readPassiveTargetID"
    /\ AfterHandshake(hs_ret) = "parseresponse"
    /\ \E f \in ChipResponses(op), p \in PadBytes, layout \in UidLayouts :
          LET r == piconfc_I2C_parseresponse(PN532_I2C_READY, f, p, scratch, 20)
              x == piconfc_PN532_readPassiveTargetID(r, receive,
                                                     received_length, layout)
          IN  /\ resp' = f
              /\ pad' = p
              /\ expected_data_len' = 20
              /\ parse_ret' = r.ret
              /\ scratch' = r.buffer
              /\ ret' = x.ret
              /\ receive' = x.uid
              /\ received_length' = x.uid_len
              /\ rx_written' = x.written
    /\ bus' = Logged(bus, "resp")
    /\ pc' = "returned"
    /\ UNCHANGED <<ndefvars, codecvars, cmd, packet, timeout, timer, polls, wres, wobs,
                   nwrites, nacks, ackbuf, hs_ret, op, rbuf_size>>

(***************************************************************************)
(* Specification of the PN532 operations: one call, its arguments and the  *)
(* prior contents of the scratch buffer drawn in Init.                     *)
(***************************************************************************)
Init ==
    /\ NoNDEF
    /\ stage = "protocol" /\ respkind = "none" /\ rawchk = NoChecks
    /\ cmd = <<>> /\ packet = <<>> /\ resp = <<>> /\ pad = 0
    /\ expected_data_len = 0 /\ parse_ret = 0
    /\ scratch \in StaleBuffers
    /\ op \in Ops \cup {"RFRegulationTest"} /\ pc = "call"
    /\ timeout = 0 /\ timer = 0
    /\ polls = 0 /\ wres = <<"none", "none">> /\ wobs = <<NoObs, NoObs>>
    /\ bus = <<>> /\ nwrites = 0 /\ nacks = 0 /\ ackbuf = <<>>
    /\ hs_ret = "none"
    /\ rbuf_size \in (IF op = "initiatorDataExchange" THEN 0..MaxRbuf
                      ELSE IF op = "readPassiveTargetID" THEN {UidSize}
                      ELSE {0})
    /\ receive = [i \in 0..(rbuf_size - 1) |-> Unset]
    /\ received_length = Unset
    /\ rx_written = 0 /\ ret = "none"

Next ==
    \/ firmwareVersion_Call
    \/ SAMConfiguration_Call
    \/ setPassiveActivationRetries_Call
    \/ readPassiveTargetID_Call
    \/ initiatorDataExchange_Call
    \/ RFRegulationTest_Call
    \/ RFRegulationTest_Return
    \/ HsWriteCommand
    \/ HsPoll1
    \/ HsReadAck
    \/ HsPoll2
    \/ HandshakeFailed
    \/ firmwareVersion_Response
    \/ SAMConfiguration_Response
    \/ setPassiveActivationRetries_Response
    \/ readPassiveTargetID_Response
    \/ initiatorDataExchange_Response

Spec == Init /\ [][Next]_vars

(***************************************************************************)
(* piconfc_NDEF.c: the TLV envelope                                        *)
(*                                                                         *)
(* The caller's buffer is a Buffer whose cells from bufsize on are the     *)
(* memory that follows it; reading them is undefined behaviour, and the    *)
(* value they give (rest) is drawn by the environment.  Next to its        *)
(* result each function reports the highest index it read.                 *)
(***************************************************************************)
U16(x) == x % 65536
\* smallest element of a nonempty set of integers
Least(S) == CHOOSE x \in S : \A y \in S : x <= y
\* a struct TLV no call has filled yet
NoTLVStruct == [value_offset |-> Unset, value_length |-> Unset]

\* what a call of parseTLV leaves: its return value, the two fields of
\* *empty_TLV, the highest buffer index read (-1: none) and the start values
\* of this call and of the retries it made
TLVOut(retval, offset, len, hi, st) ==
    [ret |-> retval, value_offset |-> offset, value_length |-> len,
     maxread |-> hi, starts |-> st]

RECURSIVE piconfc_NDEF_parseTLV(_, _, _, _)
\* parseTLV retrying two bytes past the tag whose terminator was missing
parseTLV_retry_skips_a_byte(empty_TLV, buffer, bufsize, start) ==
    LET hits == {i \in start..(bufsize - 1) : At(buffer, i) = 3}
        head == IF hits = {} THEN 0 - 1 ELSE Least(hits)
        len3 == U16(U16(At(buffer, head + 2) * 256) + At(buffer, head + 3))
        len1 == At(buffer, head + 1)
    IN  IF head = 0 - 1
        THEN TLVOut(FALSE, empty_TLV.value_offset, empty_TLV.value_length,
                    IF start < bufsize THEN bufsize - 1 ELSE 0 - 1, <<start>>)
        ELSE IF head + 2 > bufsize
        THEN TLVOut(FALSE, empty_TLV.value_offset, empty_TLV.value_length,
                    head, <<start>>)
        ELSE IF At(buffer, head + 1) = 255
        THEN TLVOut(At(buffer, head + 4 + len3) = 254, head + 4, len3,
                    head + 4 + len3, <<start>>)
        ELSE IF At(buffer, head + 2 + len1) # 254
        THEN LET r == piconfc_NDEF_parseTLV(
                          [value_offset |-> head + 2, value_length |-> len1],
                          buffer, bufsize, head + 2)
             IN  [r EXCEPT !.maxread = Max(@, head + 2 + len1),
                           !.starts = <<start>> \o @]
        ELSE TLVOut(TRUE, head + 2, len1, head + 2 + len1, <<start>>)

\* parseTLV making a failed retry a second time from the same index
parseTLV_retries_again(empty_TLV, buffer, bufsize, start) ==
    LET hits == {i \in start..(bufsize - 1) : At(buffer, i) = 3}
        head == IF hits = {} THEN 0 - 1 ELSE Least(hits)
        len3 == U16(U16(At(buffer, head + 2) * 256) + At(buffer, head + 3))
        len1 == At(buffer, head + 1)
    IN  IF head = 0 - 1
        THEN TLVOut(FALSE, empty_TLV.value_offset, empty_TLV.value_length,
                    IF start < bufsize THEN bufsize - 1 ELSE 0 - 1, <<start>>)
        ELSE IF head + 2 > bufsize
        THEN TLVOut(FALSE, empty_TLV.value_offset, empty_TLV.value_length,
                    head, <<start>>)
        ELSE IF At(buffer, head + 1) = 255
        THEN TLVOut(At(buffer, head + 4 + len3) = 254, head + 4, len3,
                    head + 4 + len3, <<start>>)
        ELSE IF At(buffer, head + 2 + len1) # 254
        THEN LET r == piconfc_NDEF_parseTLV(
                          [value_offset |-> head + 2, value_length |-> len1],
                          buffer, bufsize, head + 1)
             IN  [r EXCEPT !.maxread = Max(@, head + 2 + len1),
                           !.starts = IF r.ret THEN <<start>> \o @
                                      ELSE <<start>> \o @ \o @]
        ELSE TLVOut(TRUE, head + 2, len1, head + 2 + len1, <<start>>)

piconfc_NDEF_parseTLV(empty_TLV, buffer, bufsize, start) ==
    LET hits == {i \in start..(bufsize - 1) : At(buffer, i) = 3}
        head == IF hits = {} THEN 0 - 1 ELSE Least(hits)
        len3 == U16(U16(At(buffer, head + 2) * 256) + At(buffer, head + 3))
        len1 == At(buffer, head + 1)
    IN  IF head = 0 - 1
        THEN TLVOut(FALSE, empty_TLV.value_offset, empty_TLV.value_length,
                    IF start < bufsize THEN bufsize - 1 ELSE 0 - 1, <<start>>)
        ELSE IF head + 2 > bufsize
        THEN TLVOut(FALSE, empty_TLV.value_offset, empty_TLV.value_length,
                    head, <<start>>)
        ELSE IF At(buffer, head + 1) = 255
        THEN TLVOut(At(buffer, head + 4 + len3) = 254, head + 4, len3,
                    head + 4 + len3, <<start>>)
        ELSE IF At(buffer, head + 2 + len1) # 254
        THEN LET r == piconfc_NDEF_parseTLV(
                          [value_offset |-> head + 2, value_length |-> len1],
                          buffer, bufsize, head + 1)
             IN  [r EXCEPT !.maxread = Max(@, head + 2 + len1),
                           !.starts = <<start>> \o @]
        ELSE TLVOut(TRUE, head + 2, len1, head + 2 + len1, <<start>>)

\* encodeTLV choosing the 3-byte length form only above 255
encodeTLV_long_form_above_255(data, datasize, result, resultsize) ==
    IF datasize + 5 > resultsize
    THEN [ret |-> 0, result |-> result]
    ELSE LET lenfield == IF datasize > 255
                         THEN <<255, U8(datasize \div 256), datasize % 256>>
                         ELSE <<U8(datasize)>>
             cells == <<3>> \o lenfield
                      \o [j \in 1..datasize |-> data[j]] \o <<254>>
         IN  [ret |-> Len(cells), result |-> Stored(result, Len(cells), cells)]

\* encodeTLV asking only for the room the 1-byte length form needs
encodeTLV_margin_of_3(data, datasize, result, resultsize) ==
    IF datasize + 3 > resultsize
    THEN [ret |-> 0, result |-> result]
    ELSE LET lenfield == IF datasize >= 255
                         THEN <<255, U8(datasize \div 256), datasize % 256>>
                         ELSE <<U8(datasize)>>
             cells == <<3>> \o lenfield
                      \o [j \in 1..datasize |-> data[j]] \o <<254>>
         IN  [ret |-> Len(cells), result |-> Stored(result, Len(cells), cells)]

\* the outcome of encodeTLV: its return value and the result buffer
piconfc_NDEF_encodeTLV(data, datasize, result, resultsize) ==
    IF datasize + 5 > resultsize
    THEN [ret |-> 0, result |-> result]
    ELSE LET lenfield == IF datasize >= 255
                         THEN <<255, U8(datasize \div 256), datasize % 256>>
                         ELSE <<U8(datasize)>>
             cells == <<3>> \o lenfield
                      \o [j \in 1..datasize |-> data[j]] \o <<254>>
         IN  [ret |-> Len(cells), result |-> Stored(result, Len(cells), cells)]

(***************************************************************************)
(* Inputs of the TLV codec                                                 *)
(***************************************************************************)
MaxTLVData == 2
MaxTLVPrefix == 4
MaxTLVStart == 1
TLVSlack == 3
\* the byte values the TLV parser tells apart: tag, terminator, the marker
\* of the 3-byte length form, and a byte that is none of them
TLVBytes == {0, 3, 254, 255}
TLVShortData == UNION {[1..n -> {3, 254}] : n \in 0..MaxTLVData}
TLVLongSizes == {254, 255, 256, 65535}
TLVData == TLVShortData \cup {Ramp(n) : n \in TLVLongSizes}
ResultSizes(n) == {0, n + 3, n + 4, n + 5, n + 5 + TLVSlack}
\* what the memory after a buffer may hold
BeyondBytes == {0, 254}
\* what the memory in front of a buffer may hold
BeforeBytes == {0, 64}

\* a well-formed TLV of the 1-byte length form carrying d
ShortTLV(d) == <<3, Len(d)>> \o d \o <<254>>
ImagePrefixes == UNION {[1..n -> TLVBytes] : n \in 0..MaxTLVPrefix}
ImageTLVs == {<<>>} \cup {ShortTLV(d) : d \in {<<>>, <<3>>, <<0, 254>>}}
ImageTails == {<<>>, <<0>>}
TLVImages == {p \o t \o e : p \in ImagePrefixes, t \in ImageTLVs, e \in ImageTails}

(***************************************************************************)
(* Specification of the TLV codec: the inputs are drawn in Init, the       *)
(* actions apply encodeTLV and parseTLV to them.                           *)
(***************************************************************************)
NoProtocol ==
    /\ NoCall
    /\ respkind = "none" /\ rawchk = NoChecks
    /\ cmd = <<>> /\ packet = <<>> /\ resp = <<>> /\ pad = 0
    /\ expected_data_len = 0 /\ parse_ret = 0
    /\ scratch = FrameImage(<<>>)

TLVInit ==
    /\ NoProtocol
    /\ NoRecords
    /\ NoNTAG
    /\ tlv_encoded = Unset
    /\ tlv = NoTLVStruct
    /\ \/ /\ stage = "tlv_data"
          /\ tlv_data \in TLVData
          /\ tlv_resultsize \in ResultSizes(Len(tlv_data))
          /\ \E b \in BeyondBytes : tlv_buffer = Buffer(<<>>, b)
          /\ tlv_bufsize = 0
          /\ tlv_start = 0
       \/ /\ stage = "tlv_image"
          /\ tlv_data = <<>>
          /\ tlv_resultsize = 0
          /\ \E f \in TLVImages, b \in BeyondBytes :
                /\ tlv_buffer = Buffer(f, b)
                /\ tlv_bufsize = Len(f)
          /\ tlv_start \in 0..MaxTLVStart

\* encodeTLV(data, datasize, result, resultsize)
EncodeTLV ==
    /\ stage = "tlv_data"
    /\ LET r == piconfc_NDEF_encodeTLV(tlv_data, Len(tlv_data), tlv_buffer,
                                       tlv_resultsize)
       IN  /\ tlv_encoded' = r.ret
           /\ tlv_buffer' = r.result
    /\ stage' = "tlv_encoded"
    /\ UNCHANGED <<respkind, rawchk, sharedvars, hsvars, opvars, recvars, ntagvars,
                   tlv_data,
                   tlv_resultsize, tlv_bufsize, tlv_start, tlv>>

\* parseTLV at start 0 on what encodeTLV wrote, with the length encodeTLV
\* returned or the result buffer's size as bufsize
ParseEncodedTLV ==
    /\ stage = "tlv_encoded"
    /\ tlv_encoded > 0
    /\ \E n \in {tlv_encoded, tlv_resultsize} :
          /\ tlv_bufsize' = n
          /\ tlv' = piconfc_NDEF_parseTLV(tlv, tlv_buffer, n, 0)
    /\ stage' = "tlv_decoded"
    /\ UNCHANGED <<respkind, rawchk, sharedvars, hsvars, opvars, recvars, ntagvars,
                   tlv_data,
                   tlv_resultsize, tlv_encoded, tlv_buffer, tlv_start>>

\* parseTLV on a tag image
ParseTLV ==
    /\ stage = "tlv_image"
    /\ tlv' = piconfc_NDEF_parseTLV(tlv, tlv_buffer, tlv_bufsize, tlv_start)
    /\ stage' = "tlv_parsed"
    /\ UNCHANGED <<respkind, rawchk, sharedvars, hsvars, opvars, recvars, ntagvars,
                   tlv_data,
                   tlv_resultsize, tlv_encoded, tlv_buffer, tlv_bufsize,
                   tlv_start>>

TLVNext == EncodeTLV \/ ParseEncodedTLV \/ ParseTLV

SpecTLV == TLVInit /\ [][TLVNext]_vars

(***************************************************************************)
(* piconfc_NDEF.c: NDEF records                                            *)
(*                                                                         *)
(* int is 32 bits wide.  A value of four bytes b0..b3 is kept as the int   *)
(* the C expression (b0 << 24) | (b1 << 16) | (b2 << 8) | b3 has in two's  *)
(* complement (what GCC documents for a shift into the sign bit); as a     *)
(* uint32_t in piconfc_NDEF_messageLen it is the same value modulo 2^32.   *)
(* Each function reports, next to its result, the buffer indices it read.  *)
(***************************************************************************)
\* the SRAM of the RP2040 the library runs on, 264 kB: malloc cannot give
\* more, and no address is further from a buffer than this
RAMSize == 270336
INT_MAX == 2147483647
INT_MIN == (0 - INT_MAX) - 1
\* (b0 << 24) | (b1 << 16) | (b2 << 8) | b3 as an int
BigEndian32(b0, b1, b2, b3) ==
    (IF b0 >= 128 THEN b0 - 256 ELSE b0) * 16777216
        + b1 * 65536 + b2 * 256 + b3
\* whether a + b lies outside the range of int
Overflows(a, b) ==
    \/ a > 0 /\ b > INT_MAX - a
    \/ a < 0 /\ b < INT_MIN - a
\* a + b reduced modulo 2^32 into the range of int
AddWrap(a, b) ==
    IF a > 0 /\ b > INT_MAX - a THEN ((a - INT_MAX) - 1) + ((b - INT_MAX) - 1)
    ELSE IF a < 0 /\ b < INT_MIN - a THEN ((a + INT_MAX) + 1) + ((b + INT_MAX) + 1)
    ELSE a + b

URIPrefixes ==
    <<
      \* 0: ""
      <<>>,
      \* 1: "http://www."
      <<104, 116, 116, 112, 58, 47, 47, 119, 119, 119, 46>>,
      \* 2: "https://www."
      <<104, 116, 116, 112, 115, 58, 47, 47, 119, 119, 119, 46>>,
      \* 3: "http://"
      <<104, 116, 116, 112, 58, 47, 47>>,
      \* 4: "https://"
      <<104, 116, 116, 112, 115, 58, 47, 47>>,
      \* 5: "tel:"
      <<116, 101, 108, 58>>,
      \* 6: "mailto:"
      <<109, 97, 105, 108, 116, 111, 58>>,
      \* 7: "ftp://anonymous:anonymous@"
      <<102, 116, 112, 58, 47, 47, 97, 110, 111, 110, 121, 109, 111,
       117, 115, 58, 97, 110, 111, 110, 121, 109, 111, 117, 115, 64>>,
      \* 8: "ftp://ftp."
      <<102, 116, 112, 58, 47, 47, 102, 116, 112, 46>>,
      \* 9: "ftps://"
      <<102, 116, 112, 115, 58, 47, 47>>,
      \* 10: "sftp://"
      <<115, 102, 116, 112, 58, 47, 47>>,
      \* 11: "smb://"
      <<115, 109, 98, 58, 47, 47>>,
      \* 12: "nfs://"
      <<110, 102, 115, 58, 47, 47>>,
      \* 13: "ftp://"
      <<102, 116, 112, 58, 47, 47>>,
      \* 14: "dav://"
      <<100, 97, 118, 58, 47, 47>>,
      \* 15: "news:"
      <<110, 101, 119, 115, 58>>,
      \* 16: "telnet://"
      <<116, 101, 108, 110, 101, 116, 58, 47, 47>>,
      \* 17: "imap:"
      <<105, 109, 97, 112, 58>>,
      \* 18: "rtsp://"
      <<114, 116, 115, 112, 58, 47, 47>>,
      \* 19: "urn:"
      <<117, 114, 110, 58>>,
      \* 20: "pop:"
      <<112, 111, 112, 58>>,
      \* 21: "sip:"
      <<115, 105, 112, 58>>,
      \* 22: "sips:"
      <<115, 105, 112, 115, 58>>,
      \* 23: "tftp:"
      <<116, 102, 116, 112, 58>>,
      \* 24: "btspp://"
      <<98, 116, 115, 112, 112, 58, 47, 47>>,
      \* 25: "btl2cap://"
      <<98, 116, 108, 50, 99, 97, 112, 58, 47, 47>>,
      \* 26: "btgoep://"
      <<98, 116, 103, 111, 101, 112, 58, 47, 47>>,
      \* 27: "tcpobex://"
      <<116, 99, 112, 111, 98, 101, 120, 58, 47, 47>>,
      \* 28: "irdaobex://"
      <<105, 114, 100, 97, 111, 98, 101, 120, 58, 47, 47>>,
      \* 29: "file://"
      <<102, 105, 108, 101, 58, 47, 47>>,
      \* 30: "urn:epc:id:"
      <<117, 114, 110, 58, 101, 112, 99, 58, 105, 100, 58>>,
      \* 31: "urn:epc:tag:"
      <<117, 114, 110, 58, 101, 112, 99, 58, 116, 97, 103, 58>>,
      \* 32: "urn:epc:pat:"
      <<117, 114, 110, 58, 101, 112, 99, 58, 112, 97, 116, 58>>,
      \* 33: "urn:epc:raw:"
      <<117, 114, 110, 58, 101, 112, 99, 58, 114, 97, 119, 58>>,
      \* 34: "urn:epc:"
      <<117, 114, 110, 58, 101, 112, 99, 58>>,
      \* 35: "urn:nfc:"
      <<117, 114, 110, 58, 110, 102, 99, 58>>
    >>
\* an NDEFRecord no call has filled yet
NoRecord ==
    [tnf |-> Unset, data_offset |-> Unset, data_length |-> Unset,
     id_offset |-> Unset, id_length |-> Unset,
     type_offset |-> Unset, type_length |-> Unset]

\* What a call of parseRecord leaves: its return value, *empty_record, the
\* buffer indices it read and the check that made it return -1 ("none" when
\* it returned an offset).  build tells what the build makes of the signed
\* overflow of payload_data_offset + payload_data_len (undefined behaviour):
\* TRUE when the bounds check still rejects the record, FALSE when the sum
\* wraps around.
piconfc_NDEF_parseRecord(build, buffer, bufsize, offset, empty_record) ==
    LET flags == At(buffer, offset)
        sr == BitOf(flags, 4) = 1
        il == BitOf(flags, 3) = 1
        tnf == flags % 8
        payload_type_len == At(buffer, offset + 1)
        payload_data_len ==
            IF sr THEN At(buffer, offset + 2)
            ELSE BigEndian32(At(buffer, offset + 2), At(buffer, offset + 3),
                             At(buffer, offset + 4), At(buffer, offset + 5))
        ptr1 == offset + 2 + (IF sr THEN 1 ELSE 4)
        payload_id_len == IF il THEN At(buffer, ptr1) ELSE 0
        ptr2 == IF il THEN ptr1 + 1 ELSE ptr1
        payload_type_offset == IF payload_type_len > 0 THEN ptr2 ELSE 0
        ptr3 == ptr2 + payload_type_len
        payload_id_offset == IF payload_id_len > 0 THEN ptr3 ELSE 0
        ptr4 == ptr3 + payload_id_len
        payload_data_offset == IF payload_data_len > 0 THEN ptr4 ELSE 0
        overflow == payload_data_len > 0 /\ Overflows(ptr4, payload_data_len)
        ptr5 == IF payload_data_len > 0 THEN AddWrap(ptr4, payload_data_len)
                ELSE ptr4
        header == offset..(ptr2 - 1)
        fail(w, rd) == [ret |-> 0 - 1, record |-> empty_record, reads |-> rd,
                        why |-> w]
    IN  IF offset + 4 >= bufsize THEN fail("length", {})
        ELSE IF payload_type_len > 0 /\ ptr3 > bufsize THEN fail("type", header)
        ELSE IF payload_id_len > 0 /\ ptr4 > bufsize THEN fail("id", header)
        ELSE IF payload_data_len > 0
                /\ (IF overflow THEN build ELSE ptr5 > bufsize)
        THEN fail("data", header)
        ELSE [ret |-> ptr5,
              record |-> [tnf |-> tnf,
                          data_offset |-> payload_data_offset,
                          data_length |-> payload_data_len,
                          id_offset |-> payload_id_offset,
                          id_length |-> payload_id_len,
                          type_offset |-> payload_type_offset,
                          type_length |-> payload_type_len],
              reads |-> header, why |-> "none"]

\* The header of the record messageLen finds at index i: i2 is the index
\* after the header ("i++" over the flags, the type length, the 1 or 4
\* payload length bytes and the id length), i3 the index the pass leaves
\* ("i += type_len; i += id_len; i += payload_len")
MessageLenHeader(buffer, i) ==
    LET flags == At(buffer, i)
        short_record == BitOf(flags, 4) = 1
        has_id == BitOf(flags, 3) = 1
        type_len == At(buffer, i + 1)
        payload_len ==
            IF short_record THEN At(buffer, i + 2)
            ELSE BigEndian32(At(buffer, i + 2), At(buffer, i + 3),
                             At(buffer, i + 4), At(buffer, i + 5))
        i1 == i + 2 + (IF short_record THEN 1 ELSE 4)
        id_len == IF has_id THEN At(buffer, i1) ELSE 0
        i2 == IF has_id THEN i1 + 1 ELSE i1
    IN  [i2 |-> i2, i3 |-> AddWrap(i2 + type_len + id_len, payload_len)]

\* The while loop of messageLen from index i on.  seen holds the values i
\* had at the top of the earlier passes: when one comes back the loop never
\* ends (returns = FALSE).  A pass that starts below the buffer reads
\* buffer[i] with i < 0, in the memory before the buffer (At gives what
\* that memory holds) and the loop goes on from there; an index further
\* below the buffer than the RAM is large is outside the memory, and the
\* call does not return from that read.
RECURSIVE MessageLenLoop(_, _, _, _, _, _)
\* A pass of that loop past the Message-End test, i2 and i3 being what
\* MessageLenHeader gives at i.  Passes whose header lies wholly before the
\* buffer all read the same bytes and advance by the same step: the k of
\* them that follow one another are taken at once.
MessageLenPass(buffer, bufsize, i, totalRecords, reads, seen, i2, i3, step, k) ==
    \* this pass and the next one read only memory before the buffer
    IF i2 <= 0 /\ i3 > i /\ i3 + (i2 - i) <= 0
    THEN MessageLenLoop(buffer, bufsize, i + k * step, totalRecords + k,
                        reads \cup {i + m * step + d :
                                       m \in 0..(k - 1), d \in 0..(i2 - i - 1)},
                        seen \cup {i + m * step : m \in 0..(k - 1)})
    ELSE MessageLenLoop(buffer, bufsize, i3, totalRecords + 1,
                        reads \cup (i..(i2 - 1)), seen \cup {i})

MessageLenRecord(buffer, bufsize, i, totalRecords, reads, seen, h) ==
    MessageLenPass(buffer, bufsize, i, totalRecords, reads, seen, h.i2, h.i3,
                   h.i3 - i,
                   IF h.i3 > i THEN ((0 - h.i2) \div (h.i3 - i)) + 1 ELSE 0)

MessageLenLoop(buffer, bufsize, i, totalRecords, reads, seen) ==
    IF ~(i < bufsize)
    THEN [ret |-> totalRecords, reads |-> reads, returns |-> TRUE]
    ELSE IF i < 0 - RAMSize \/ i \in seen
    THEN [ret |-> totalRecords, reads |-> reads \cup {i},
          returns |-> FALSE]
    ELSE IF BitOf(At(buffer, i), 6) = 1
    THEN [ret |-> totalRecords, reads |-> reads \cup {i},
          returns |-> TRUE]
    ELSE MessageLenRecord(buffer, bufsize, i, totalRecords, reads, seen,
                          MessageLenHeader(buffer, i))

piconfc_NDEF_messageLen(buffer, bufsize) ==
    IF bufsize < 1
    THEN [ret |-> 1, reads |-> {}, returns |-> TRUE]
    ELSE IF BitOf(At(buffer, 0), 6) = 1
    THEN [ret |-> 1, reads |-> {0}, returns |-> TRUE]
    ELSE MessageLenLoop(buffer, bufsize, 0, 0, {0}, {})

\* The while loop of parseMessage: records holds the slots filled so far,
\* calls the offset and the return value of each parseRecord call made.
RECURSIVE ParseMessageLoop(_, _, _, _, _, _, _)
\* a pass of that loop after its call of parseRecord, whose result is r
ParseMessagePass(build, buffer, bufsize, expected_records, offset, records, calls, r) ==
    IF r.ret = 0 - 1
    THEN [records |-> records,
          calls |-> Append(calls, [offset |-> offset, ret |-> r.ret])]
    ELSE ParseMessageLoop(build, buffer, bufsize, expected_records,
                          r.ret, Append(records, r.record),
                          Append(calls, [offset |-> offset, ret |-> r.ret]))

ParseMessageLoop(build, buffer, bufsize, expected_records, offset, records, calls) ==
    IF ~(offset <= bufsize /\ Len(records) < expected_records)
    THEN [records |-> records, calls |-> calls]
    ELSE ParseMessagePass(build, buffer, bufsize, expected_records, offset,
                          records, calls,
                          piconfc_NDEF_parseRecord(build, buffer, bufsize,
                                                   offset, NoRecord))

\* parseMessage after its while loop, whose result is loop
ParseMessageResult(expected_records, loop) ==
    [returns |-> TRUE, ret |-> Len(loop.records),
     expected_records |-> expected_records,
     dest_set |-> TRUE, records |-> loop.records, calls |-> loop.calls]

\* parseMessage after its call of messageLen, whose result is count
ParseMessageCounted(mem, build, buffer, bufsize, count) ==
    LET none == [returns |-> TRUE, ret |-> 0,
                 expected_records |-> count.ret,
                 dest_set |-> FALSE, records |-> <<>>, calls |-> <<>>]
    IN  IF ~count.returns THEN [none EXCEPT !.returns = FALSE]
        ELSE IF count.ret = 0 THEN none
        ELSE IF ~mem THEN none
        ELSE ParseMessageResult(count.ret,
                                ParseMessageLoop(build, buffer, bufsize,
                                                 count.ret, 0, <<>>, <<>>))

\* What a call of parseMessage leaves: whether it returns at all, its return
\* value, the count messageLen gave it, whether *dest was set and the slots
\* of the array that were filled.  mem tells whether malloc gives memory.
piconfc_NDEF_parseMessage(mem, build, buffer, bufsize) ==
    ParseMessageCounted(mem, build, buffer, bufsize,
                        piconfc_NDEF_messageLen(buffer, bufsize))

\* createRecord using the short form up to a payload length of 256
createRecord_short_up_to_256(mem, tnf, type, typelen, id, idlen, payload, payloadlen) ==
    LET short == payloadlen <= 256
        sr == IF short THEN SetBitOf(U8(tnf), 4) ELSE U8(tnf)
        flags == IF idlen > 0 THEN SetBitOf(sr, 3) ELSE sr
        len == 2 + (IF short THEN 1 ELSE 4) + (IF idlen > 0 THEN 1 ELSE 0)
               + typelen + idlen + payloadlen
        record == <<flags, typelen>>
                  \o (IF short THEN <<U8(payloadlen)>>
                      ELSE <<0, 0, U8(payloadlen \div 256), payloadlen % 256>>)
                  \o (IF idlen > 0 THEN <<idlen>> ELSE <<>>)
                  \o [k \in 1..typelen |-> type[k]]
                  \o [k \in 1..idlen |-> id[k]]
                  \o [k \in 1..payloadlen |-> payload[k]]
    IN  IF ~mem THEN [ret |-> FALSE, record |-> <<>>, recordlen |-> Unset]
        ELSE [ret |-> TRUE, record |-> record, recordlen |-> len]

\* What a call of createRecord leaves: its return value, the bytes stored
\* into the allocated record and *recordlen.  payloadlen stays below 2^24
\* here, so the two high bytes of the 4-byte length are 0.
piconfc_NDEF_createRecord(mem, tnf, type, typelen, id, idlen, payload, payloadlen) ==
    LET short == payloadlen < 256
        \* flags = tnf; flags |= 0x10; flags |= 0x08
        sr == IF short THEN SetBitOf(U8(tnf), 4) ELSE U8(tnf)
        flags == IF idlen > 0 THEN SetBitOf(sr, 3) ELSE sr
        len == 2 + (IF short THEN 1 ELSE 4) + (IF idlen > 0 THEN 1 ELSE 0)
               + typelen + idlen + payloadlen
        record == <<flags, typelen>>
                  \o (IF short THEN <<U8(payloadlen)>>
                      ELSE <<(payloadlen \div 16777216) % 256,
                             (payloadlen \div 65536) % 256,
                             (payloadlen \div 256) % 256,
                             payloadlen % 256>>)
                  \o (IF idlen > 0 THEN <<idlen>> ELSE <<>>)
                  \o [k \in 1..typelen |-> type[k]]
                  \o [k \in 1..idlen |-> id[k]]
                  \o [k \in 1..payloadlen |-> payload[k]]
    IN  IF ~mem THEN [ret |-> FALSE, record |-> <<>>, recordlen |-> Unset]
        ELSE [ret |-> TRUE, record |-> record, recordlen |-> len]

TNF_WELLKNOWN == 1

\* readPayloadString always stepping over the first payload byte
readPayloadString_skips_first_byte(mem, record, buffer) ==
    LET isURI == /\ record.tnf = TNF_WELLKNOWN
                 /\ record.type_length = 1
                 /\ At(buffer, record.type_offset) = 85
        code == At(buffer, record.data_offset)
        prefix == IF isURI /\ code < 36 THEN URIPrefixes[code + 1] ELSE <<>>
        total_length == Len(prefix) + record.data_length - 1
        final == prefix \o [j \in 1..(record.data_length - 1) |->
                               At(buffer, record.data_offset + j)]
        none == [ret |-> FALSE, string |-> <<>>, allocated |-> 0,
                 stored |-> 0, reads |-> {}]
    IN  IF isURI /\ code >= 36 THEN none
        ELSE IF record.data_length >= RAMSize \/ record.data_length < 0
        THEN [none EXCEPT !.allocated = RAMSize + 1]
        ELSE IF ~mem THEN [none EXCEPT !.allocated = total_length + 1]
        ELSE [ret |-> TRUE, string |-> final \o <<>>,
              allocated |-> total_length + 1,
              stored |-> Len(final) + 1, reads |-> {}]

\* What a call of readPayloadString leaves: its return value, the bytes of
\* the string before its terminating 0, the size asked of malloc, the number
\* of cells of it the call stored to, and the buffer indices read.  malloc
\* gives no memory when mem is FALSE, and never for a size that is negative
\* as an int (huge as a size_t) or above RAMSize.
piconfc_NDEF_readPayloadString(mem, record, buffer) ==
    LET isURI == /\ record.tnf = TNF_WELLKNOWN
                 /\ record.type_length = 1
                 /\ At(buffer, record.type_offset) = 85
        code == At(buffer, record.data_offset)
        prefix == IF isURI /\ code < 36 THEN URIPrefixes[code + 1] ELSE <<>>
        prefix_len == Len(prefix)
        total_length == IF prefix_len > 0
                        THEN prefix_len + record.data_length - 1
                        ELSE prefix_len + record.data_length
        data_head == IF prefix_len > 0 THEN record.data_offset + 1
                     ELSE record.data_offset
        data_max == IF prefix_len > 0 THEN record.data_length - 1
                    ELSE record.data_length
        final == prefix \o [j \in 1..data_max |-> At(buffer, data_head + j - 1)]
        headreads == IF isURI
                     THEN {record.type_offset, record.data_offset}
                     ELSE IF record.tnf = TNF_WELLKNOWN /\ record.type_length = 1
                     THEN {record.type_offset}
                     ELSE {}
        none == [ret |-> FALSE, string |-> <<>>, allocated |-> 0,
                 stored |-> 0, reads |-> headreads]
    IN  IF isURI /\ code >= 36 THEN none
        ELSE IF record.data_length >= RAMSize \/ total_length < 0 - 1
        THEN [none EXCEPT !.allocated = RAMSize + 1]
        ELSE IF ~mem THEN [none EXCEPT !.allocated = total_length + 1]
        ELSE [ret |-> TRUE, string |-> final \o <<>>,
              allocated |-> total_length + 1,
              stored |-> Len(final) + 1,
              reads |-> headreads \cup
                        {data_head + j - 1 : j \in 1..data_max}]

(***************************************************************************)
(* Inputs of the record codec                                              *)
(***************************************************************************)
MaxRecPayload == 2
MaxRecords == 3
MaxRecOffset == 3
\* payload bytes: URI prefix codes 0, 4, the last valid one and the first
\* invalid one, and a letter
PayloadBytes == {0, 4, 35, 36, 97}
LongPayloads256 == {<<0>> \o Ramp(254), <<0>> \o Ramp(255)}
RecPayloads ==
    UNION {[1..n -> PayloadBytes] : n \in 0..MaxRecPayload} \cup LongPayloads256
RecTypes == {<<>>, <<85>>, <<84, 120>>}
RecIds == {<<>>, <<105>>}
RecArgs ==
    [tnf : 0..7, type : RecTypes, id : RecIds, payload : RecPayloads]

\* The bytes of one record as the NDEF format lays them out: flags (MB 0x80,
\* ME 0x40, SR 0x10, IL 0x08, TNF in bits 0..2), type length, payload length
\* (1 byte if SR, else 4 big-endian), id length if IL, type, id, payload.
WireRecord(mb, me, shape) ==
    LET flags == (IF mb THEN 128 ELSE 0) + (IF me THEN 64 ELSE 0)
                 + (IF shape.sr THEN 16 ELSE 0)
                 + (IF shape.id # <<>> THEN 8 ELSE 0) + shape.tnf
    IN  <<flags, Len(shape.type)>>
        \o (IF shape.sr THEN <<Len(shape.payload)>>
            ELSE <<0, 0, 0, Len(shape.payload)>>)
        \o (IF shape.id # <<>> THEN <<Len(shape.id)>> ELSE <<>>)
        \o shape.type \o shape.id \o shape.payload
RecordShapes ==
    {[sr |-> TRUE, tnf |-> 1, type |-> <<85>>, id |-> <<>>, payload |-> <<1, 97>>],
     [sr |-> TRUE, tnf |-> 0, type |-> <<>>, id |-> <<>>, payload |-> <<>>],
     [sr |-> TRUE, tnf |-> 1, type |-> <<85>>, id |-> <<>>, payload |-> <<>>],
     [sr |-> FALSE, tnf |-> 2, type |-> <<116>>, id |-> <<105>>, payload |-> <<0>>]}
\* a message: MB on the first record, ME on the last one only
RECURSIVE WireMessage(_, _)
WireMessage(shapes, k) ==
    IF k > Len(shapes) THEN <<>>
    ELSE WireRecord(k = 1, k = Len(shapes), shapes[k])
         \o WireMessage(shapes, k + 1)
ShapeSeqs == UNION {[1..n -> RecordShapes] : n \in 1..MaxRecords}
Messages == {WireMessage(q, 1) : q \in ShapeSeqs}
\* messages cut short
Truncated ==
    UNION {{SubSeq(m, 1, n) : n \in 0..(Len(m) - 1)} : m \in Messages}
\* headers whose 4-byte payload length is at an edge of int and uint32_t
EdgeLengths ==
    {<<0, 0, 0, 0>>, <<0, 0, 0, 2>>, <<127, 255, 255, 255>>, <<128, 0, 0, 0>>,
     <<255, 255, 255, 250>>, <<255, 255, 255, 251>>}
Hostile ==
    {<<f, 0>> \o l \o e : f \in {0, 8, 1}, l \in EdgeLengths,
                          e \in {<<>>, <<0>>, <<0, 81, 0, 0>>}}
NDEFImages == Messages \cup Truncated \cup Hostile

(***************************************************************************)
(* Specification of the record codec: inputs drawn in Init, the actions    *)
(* apply the functions of piconfc_NDEF.c to them.                          *)
(***************************************************************************)
NDEFInit ==
    /\ NoProtocol
    /\ NoTLV
    /\ NoNTAG
    /\ rec_created = <<>>
    /\ heap_ok = TRUE /\ on_overflow = FALSE
    /\ ndef_offset = 0
    /\ ndef_record = <<>> /\ ndef_count = <<>> /\ ndef_message = <<>>
    /\ ndef_string = <<>>
    /\ \/ /\ stage = "rec_args"
          /\ rec_args \in RecArgs
          /\ ndef_buffer = Buffer(<<>>, 0)
          /\ ndef_bufsize = 0
       \/ /\ stage = "ndef_image"
          /\ rec_args = <<>>
          /\ \E f \in NDEFImages, a \in BeforeBytes, b \in BeyondBytes :
                /\ ndef_buffer = Memory(f, a, b)
                /\ ndef_bufsize = Len(f)

\* createRecord(&dest, &recordlen, tnf, type, typelen, id, idlen, payload,
\* payloadlen); the record it allocates becomes the buffer
CreateRecord ==
    /\ stage = "rec_args"
    /\ \E mem \in BOOLEAN :
          LET r == piconfc_NDEF_createRecord(mem, rec_args.tnf,
                       rec_args.type, Len(rec_args.type),
                       rec_args.id, Len(rec_args.id),
                       rec_args.payload, Len(rec_args.payload))
          IN  /\ heap_ok' = mem
              /\ rec_created' = [ret |-> r.ret, recordlen |-> r.recordlen]
              /\ ndef_buffer' = Buffer(r.record, 0)
              /\ ndef_bufsize' = IF r.ret THEN r.recordlen ELSE 0
              /\ stage' = IF r.ret THEN "rec_created" ELSE "rec_nomem"
    /\ UNCHANGED <<respkind, rawchk, sharedvars, hsvars, opvars, tlvvars, ntagvars,
                   rec_args, on_overflow, ndef_offset, ndef_record, ndef_count,
                   ndef_message, ndef_string>>

\* parseRecord(buffer, bufsize, offset, &record)
ParseRecordAt(from, to, offsets) ==
    /\ stage = from
    /\ \E o \in offsets, b \in BOOLEAN :
          /\ ndef_offset' = o
          /\ on_overflow' = b
          /\ ndef_record' = piconfc_NDEF_parseRecord(b, ndef_buffer,
                                ndef_bufsize, o, NoRecord)
    /\ stage' = to
    /\ UNCHANGED <<respkind, rawchk, sharedvars, hsvars, opvars, tlvvars, ntagvars,
                   rec_args, rec_created, heap_ok, ndef_buffer, ndef_bufsize,
                   ndef_count, ndef_message, ndef_string>>
\* ... on the record createRecord made, at offset 0
ParseCreated == ParseRecordAt("rec_created", "rec_decoded", {0})
\* ... on an image
ParseRecord == ParseRecordAt("ndef_image", "ndef_record", 0..MaxRecOffset)

\* readPayloadString(&record, &string) on a record parseRecord decoded
ReadPayloadAt(from, to) ==
    /\ stage = from
    /\ ndef_record.ret # 0 - 1
    /\ \E mem \in BOOLEAN :
          /\ heap_ok' = mem
          /\ ndef_string' = piconfc_NDEF_readPayloadString(mem,
                                ndef_record.record, ndef_buffer)
    /\ stage' = to
    /\ UNCHANGED <<respkind, rawchk, sharedvars, hsvars, opvars, tlvvars, ntagvars,
                   rec_args, rec_created, on_overflow, ndef_buffer, ndef_bufsize,
                   ndef_offset, ndef_record, ndef_count, ndef_message>>
ReadCreated == ReadPayloadAt("rec_decoded", "rec_read")
ReadPayloadString == ReadPayloadAt("ndef_record", "ndef_read")

\* messageLen(buffer, bufsize)
MessageLen ==
    /\ stage = "ndef_image"
    /\ ndef_count' = piconfc_NDEF_messageLen(ndef_buffer, ndef_bufsize)
    /\ stage' = "ndef_counted"
    /\ UNCHANGED <<respkind, rawchk, sharedvars, hsvars, opvars, tlvvars, ntagvars,
                   rec_args, rec_created, heap_ok, on_overflow, ndef_buffer,
                   ndef_bufsize, ndef_offset, ndef_record, ndef_message,
                   ndef_string>>

\* parseMessage(buffer, bufsize, &dest)
ParseMessage ==
    /\ stage = "ndef_image"
    /\ \E mem \in BOOLEAN, b \in BOOLEAN :
          /\ heap_ok' = mem
          /\ on_overflow' = b
          /\ ndef_message' = piconfc_NDEF_parseMessage(mem, b, ndef_buffer,
                                                       ndef_bufsize)
    /\ stage' = "ndef_message"
    /\ UNCHANGED <<respkind, rawchk, sharedvars, hsvars, opvars, tlvvars, ntagvars,
                   rec_args, rec_created, ndef_buffer, ndef_bufsize,
                   ndef_offset, ndef_record, ndef_count, ndef_string>>

NDEFNext ==
    \/ CreateRecord
    \/ ParseCreated
    \/ ReadCreated
    \/ ParseRecord
    \/ ReadPayloadString
    \/ MessageLen
    \/ ParseMessage

SpecNDEF == NDEFInit /\ [][NDEFNext]_vars

(***************************************************************************)
(* piconfc_NTAG.c: page reads, and piconfc_readNTAG of piconfc.c           *)
(*                                                                         *)
(* A tag is its model byte (byte 2 of page 3), the bytes of its user       *)
(* memory from page 4 on (zeros after them), and the page read that fails, *)
(* if any: fail is the start page of that read (Unset: none) and how tells *)
(* whether the command/ACK handshake fails or the chip reports an error    *)
(* status.                                                                 *)
(***************************************************************************)
\* sizeof(readbuf) in piconfc_readNTAG
ReadbufSize == 888

\* the four bytes of a page of the tag
TagPage(tag, page) ==
    IF page = 3 THEN <<225, 16, tag.model, 0>>
    ELSE IF page < 3 THEN <<4, 0, 0, 0>>
    ELSE [k \in 1..NTAG_PAGE_SIZE |->
             LET a == NTAG_PAGE_SIZE * (page - 4) + k
             IN  IF a <= Len(tag.image) THEN tag.image[a] ELSE 0]
\* what the tag answers to READ: four pages from startpage on
TagRead(tag, startpage) ==
    TagPage(tag, startpage) \o TagPage(tag, startpage + 1)
    \o TagPage(tag, startpage + 2) \o TagPage(tag, startpage + 3)
\* the frame the chip answers the data exchange with
TagAnswer(tag, startpage) ==
    IF tag.fail = startpage /\ tag.how = "status"
    THEN ResponseFrame(<<65, 1>>)
    ELSE ResponseFrame(<<65, 0>> \o TagRead(tag, startpage))
\* read4Pages: initiatorDataExchange(config, {NXP_CMD_READ, startpage}, 2,
\* buffer, &rlen, 16) and "success && rlen == 16".  buffer0 holds the 16
\* cells at buffer before the call (a function on 0..15); written is the
\* number of bytes stored through buffer, hs what sendcommand_andack
\* returned in the exchange.
piconfc_NTAG_read4Pages(hs, tag, startpage, scratch0, buffer0) ==
    LET r == piconfc_I2C_parseresponse(PN532_I2C_READY,
                                       TagAnswer(tag, startpage), 0, scratch0,
                                       U8(16 + 2))
        x == piconfc_PN532_initiatorDataExchange(r, buffer0, 0)
    IN  IF AfterHandshake(hs) = "return"
        THEN [retval |-> FALSE, buffer |-> buffer0, scratch |-> scratch0,
              written |-> 0]
        ELSE [retval |-> x.ret = "true" /\ x.received_length = 16,
              buffer |-> x.receive, scratch |-> r.buffer,
              written |-> x.written]

\* read1Page after its call read4Pages(config, page, config->scratch), whose
\* result is q: on success the first 4 bytes of scratch are copied to
\* buffer, which otherwise keeps the cells buffer0 it had.  The receive
\* buffer of that call is scratch itself, so the copy loop of
\* initiatorDataExchange moves scratch[2..] down to scratch[0..].
piconfc_NTAG_read1Page(q, buffer0) ==
    LET after == Stored(q.scratch, q.written,
                        [k \in 1..q.written |-> At(q.scratch, k + 1)])
    IN  [ret |-> q.retval,
         buffer |-> IF q.retval
                    THEN [k \in 1..NTAG_PAGE_SIZE |-> At(after, k - 1)] \o <<>>
                    ELSE buffer0,
         scratch |-> after]

\* rbuf of getModel before its call of read1Page: not initialised
NoPage == [k \in 1..NTAG_PAGE_SIZE |-> Unset] \o <<>>

\* getModel after its call read1Page(config, 0x03, rbuf), whose result is
\* p: rbuf[2], or 0
piconfc_NTAG_getModel(p) == IF p.ret THEN p.buffer[3] ELSE 0

\* the switch of readUserPages (0: default, the model is unknown)
EndUserPages(model) ==
    CASE model = MODEL_NTAG213 -> 39
      [] model = MODEL_NTAG215 -> 129
      [] model = MODEL_NTAG216 -> 225
      [] OTHER -> 0

\* readUserPages up to its for loop, model being what getModel returned:
\* the switch.  The loop's state: the page to read next, head (the bytes
\* stored so far), the bytes at buffer[0..head), the start pages read, hi
\* (one more than the highest buffer index written), and whether the
\* function has returned (with head).
UserPagesEntry(model) ==
    [end_userpages |-> EndUserPages(model), page |-> 4, head |-> 0,
     stored |-> <<>>, pages |-> <<>>, hi |-> 0,
     returned |-> EndUserPages(model) = 0]

\* whether a pass of the for loop of readUserPages calls read4Pages
PassReads(bufsize, st) ==
    st.page < st.end_userpages /\ ~(st.head + 16 >= bufsize)

\* One pass of the for loop of readUserPages, from the loop's state st; q is
\* what its call read4Pages(config, page, buffer + head) leaves
UserPagesStep(bufsize, st, q) ==
    IF ~PassReads(bufsize, st) THEN [st EXCEPT !.returned = TRUE]
    ELSE IF ~q.retval
    THEN [st EXCEPT !.returned = TRUE,
                    !.hi = Max(st.hi, st.head + q.written)]
    ELSE [st EXCEPT !.page = st.page + 4,
                    !.head = st.head + 16,
                    !.stored = st.stored \o [k \in 1..16 |-> q.buffer[k - 1]],
                    !.pages = Append(st.pages, st.page),
                    !.hi = st.head + 16]

\* ---- fastReadPages
\* what the tag answers to FAST_READ: the pages startpage..stoppage
RECURSIVE TagFastRead(_, _, _)
TagFastRead(tag, startpage, stoppage) ==
    IF stoppage < startpage THEN <<>>
    ELSE TagPage(tag, startpage) \o TagFastRead(tag, startpage + 1, stoppage)
\* the frame the chip answers the data exchange of FAST_READ with: an error
\* status where the chip does not pass the command on (the note above the
\* function), the pages where it does
TagFastAnswer(tag, startpage, stoppage, passes) ==
    IF ~passes \/ (tag.fail = startpage /\ tag.how = "status")
    THEN ResponseFrame(<<65, 1>>)
    ELSE ResponseFrame(<<65, 0>> \o TagFastRead(tag, startpage, stoppage))

\* fastReadPages(config, startpage, stoppage, buffer, bufsize): the data
\* exchange receives into config->scratch itself with rbuf_size (a uint8_t,
\* rbuf here) pages * NTAG_PAGE_SIZE, so its copy loop moves scratch[2..] down to
\* scratch[0..]; then rlen bytes of scratch, at most bufsize of them, are
\* copied to buffer, and rlen is returned.  stored are the cells of buffer
\* written, f the chip's answer and hs what sendcommand_andack returned.
piconfc_NTAG_fastReadPages(f, hs, startpage, stoppage, scratch0, bufsize) ==
    LET pages == stoppage - startpage + 1
        rbuf == U8(pages * NTAG_PAGE_SIZE)
        r == piconfc_I2C_parseresponse(PN532_I2C_READY, f, 0, scratch0,
                                       U8(rbuf + 2))
        x == piconfc_PN532_initiatorDataExchange(r, <<>>, 0)
        after == Stored(r.buffer, x.written,
                        [k \in 1..x.written |-> At(r.buffer, k + 1)])
        rlen == x.received_length
        copied == IF rlen < bufsize THEN rlen ELSE bufsize
    IN  IF stoppage <= startpage
        THEN [ret |-> 0, stored |-> <<>>, scratch |-> scratch0]
        ELSE IF AfterHandshake(hs) = "return"
        THEN [ret |-> 0, stored |-> <<>>, scratch |-> scratch0]
        ELSE IF x.ret = "true"
        THEN [ret |-> rlen,
              stored |-> [k \in 1..copied |-> At(after, k - 1)] \o <<>>,
              scratch |-> after]
        ELSE [ret |-> 0, stored |-> <<>>, scratch |-> r.buffer]

\* ---- writePage, writeUserData
\* the tag after a WRITE of the four bytes data to a user page
TagWritten(tag, page, data) ==
    LET first == NTAG_PAGE_SIZE * (page - 4)
        n == Max(Len(tag.image), first + NTAG_PAGE_SIZE)
    IN  [tag EXCEPT !.image =
            [a \in 1..n |->
                IF a > first /\ a <= first + NTAG_PAGE_SIZE THEN data[a - first]
                ELSE IF a <= Len(tag.image) THEN tag.image[a] ELSE 0] \o <<>>]
\* the frame the chip answers the data exchange of WRITE with
TagWriteAnswer(tag, page) ==
    IF tag.fail = page /\ tag.how = "status" THEN ResponseFrame(<<65, 1>>)
    ELSE ResponseFrame(<<65, 0>>)
\* cmdbuf of writePage
WritePageCmd(page, buffer) ==
    <<NXP_CMD_WRITE, page, buffer[1], buffer[2], buffer[3], buffer[4]>>

\* writePage(config, page, buffer): initiatorDataExchange(config, cmdbuf, 6,
\* retbuf, &rlen, 0), and its success is returned.  tag is the tag after
\* the call: the page is written when the exchange reaches the tag and the
\* chip reports no error.  hs is what sendcommand_andack returned.
piconfc_NTAG_writePage(hs, tag, page, buffer, scratch0) ==
    LET r == piconfc_I2C_parseresponse(PN532_I2C_READY,
                                       TagWriteAnswer(tag, page), 0, scratch0,
                                       U8(0 + 2))
        x == piconfc_PN532_initiatorDataExchange(r, [i \in 0..7 |-> Unset], 0)
        sent == WritePageCmd(page, buffer)
        taken == ~(tag.fail = page /\ tag.how = "status")
    IN  IF AfterHandshake(hs) = "return"
        THEN [success |-> FALSE, scratch |-> scratch0, tag |-> tag]
        ELSE [success |-> x.ret = "true", scratch |-> r.buffer,
              tag |-> IF taken
                      THEN TagWritten(tag, sent[2], SubSeq(sent, 3, 6))
                      ELSE tag]

\* writeUserData up to its for loop, model being what getModel returned:
\* model 0 is taken as NTAG213, then the switch.  The loop's state: the
\* page to write next (i), head, the pages written, whether the function
\* has returned and the value returned.
WriteUserDataEntry(model) ==
    [end_userpages |-> EndUserPages(IF model = 0 THEN MODEL_NTAG213
                                     ELSE model),
     page |-> 4, head |-> 0, pages |-> <<>>, returned |-> FALSE,
     ret |-> FALSE]

\* whether a pass of the for loop of writeUserData calls writePage
PassWrites(bufsize, st) ==
    st.page < st.end_userpages /\ ~(st.head + 4 > bufsize)

\* One pass of the for loop of writeUserData, from the loop's state st; w is
\* what its call writePage(config, i, buffer + head) leaves
WriteUserDataStep(bufsize, st, w) ==
    IF ~(st.page < st.end_userpages)
    THEN [st EXCEPT !.returned = TRUE, !.ret = TRUE]
    ELSE IF st.head + 4 > bufsize \/ ~w.success
    THEN [st EXCEPT !.returned = TRUE, !.ret = FALSE]
    ELSE [st EXCEPT !.page = st.page + 1,
                    !.head = st.head + 4,
                    !.pages = Append(st.pages, st.page)]

\* piconfc_readNTAG after its call of readPayloadString, whose result is str
ReadNTAGString(memlen, str) ==
    [returns |-> TRUE, ret |-> str.ret, string |-> str.string,
     at |-> "readPayloadString", memlen |-> memlen]

\* piconfc_readNTAG after its call of parseMessage, whose result is m (the
\* rest as for piconfc_readNTAG below)
ReadNTAGParsed(found, memlen, readbuf, t, mem2, m) ==
    LET out(at, rv, string) ==
            [returns |-> TRUE, ret |-> rv, string |-> string, at |-> at,
             memlen |-> IF found THEN memlen ELSE 0]
    IN  IF ~found THEN out("readPassiveTargetID", FALSE, <<>>)
        ELSE IF memlen = 0 THEN out("readUserPages", FALSE, <<>>)
        ELSE IF ~t.ret THEN out("parseTLV", FALSE, <<>>)
        ELSE IF ~m.returns
        THEN [out("parseMessage", FALSE, <<>>) EXCEPT !.returns = FALSE]
        ELSE IF m.ret < 1 THEN out("parseMessage", FALSE, <<>>)
        ELSE ReadNTAGString(memlen,
                            piconfc_NDEF_readPayloadString(mem2, m.records[1],
                                                           readbuf))

\* What a call of piconfc_readNTAG leaves: whether it returns, the value
\* returned, the string, and how far it got.  found is what
\* readPassiveTargetID returned, memlen what the call readUserPages(config,
\* readbuf, sizeof(readbuf)) returned, readbuf the static buffer after it, t
\* what the call parseTLV(&tlv, readbuf, memlen, 0) left, mem1 and mem2
\* whether malloc gives memory in parseMessage and in readPayloadString.
\* By lines 22..23 of piconfc_NDEF.c tlv.buffer is readbuf and
\* tlv.buffer_len is memlen.
piconfc_readNTAG(found, memlen, readbuf, t, mem1, mem2, build) ==
    ReadNTAGParsed(found, memlen, readbuf, t, mem2,
                   piconfc_NDEF_parseMessage(mem1, build, readbuf, memlen))

(***************************************************************************)
(* Inputs of the page reads                                                *)
(***************************************************************************)
\* a short WellKnown record of type "U" with the payload 01 'a' '.' 'z'
URIRecord == <<209, 1, 4, 85, 1, 97, 46, 122>>
\* the text "http://www.a.z"
ExpandedURI == <<104, 116, 116, 112, 58, 47, 47, 119, 119, 119, 46, 97, 46, 122>>
\* user memories: empty; the record in a TLV (tag 0x03, its length, the
\* record, terminator 0xFE); the same with the length byte 9; the record at
\* the start of the memory with an empty TLV behind it
TagImages ==
    {<<>>,
     <<3, Len(URIRecord)>> \o URIRecord \o <<254>>,
     <<3, 9>> \o URIRecord \o <<254>>,
     URIRecord \o <<3, 0, 254>>}
TagModels == {MODEL_NTAG213, MODEL_NTAG215, MODEL_NTAG216, 0}
\* the failing page read: none, the read of page 3 (the model), of page 4,
\* of page 8
TagFailures ==
    {[fail |-> Unset, how |-> "none"], [fail |-> 3, how |-> "handshake"],
     [fail |-> 4, how |-> "status"], [fail |-> 8, how |-> "handshake"]}
Tags ==
    {[model |-> md, image |-> im, fail |-> f.fail, how |-> f.how] :
        md \in TagModels, im \in TagImages, f \in TagFailures}
\* the byte count of the pages 4..end_userpages of a model
UserMemory(model) == (EndUserPages(model) - 4 + 1) * NTAG_PAGE_SIZE
\* bufsize: nothing, one read, the user memories of the three models, and
\* the scratch buffer's size
NTAGBufSizes ==
    {0, 16, 17} \cup {UserMemory(md) : md \in TagModels \ {0}} \cup {ScratchSize}

\* the caller's buffer of writeUserData: bufsize bytes
WriteData(bufsize) == [k \in 1..bufsize |-> (7 * k) % 256]
\* startpage and stoppage of fastReadPages
FastRanges == {<<4, 4>>, <<5, 4>>, <<4, 5>>, <<4, 7>>}
\* timeout_ms of piconfc_readNTAG
ReadTimeouts == {0, DEFAULT_TIMEOUT}

\* what the chip answers readPassiveTargetID with: no target, or one target
\* with ATQA 00 44, SAK 00 and a UID of 7 bytes
TargetResponses ==
    {ResponseFrame(<<75, 0>>),
     ResponseFrame(<<75, 1, 1, 0, 68, 0, 7, 4, 165, 4, 165, 4, 165, 4>>)}
\* ntag_string while no call of piconfc_readNTAG has got past line 45
NoString ==
    [returns |-> FALSE, ret |-> FALSE, string |-> <<>>, at |-> "none",
     memlen |-> 0, found |-> FALSE, mem |-> TRUE]

(***************************************************************************)
(* Specification of the page reads: the tag and bufsize are drawn in Init  *)
(***************************************************************************)
NTAGInit ==
    /\ NoProtocol
    /\ NoTLV
    /\ NoRecords
    /\ stage = "ntag_tag"
    /\ ntag \in Tags
    /\ ntag_bufsize \in NTAGBufSizes
    /\ ntag_pages = <<>>
    /\ ntag_string = NoString

\* A function of piconfc_NTAG.c or piconfc_readNTAG calls the operation o of
\* piconfc_PN532.c, which hands its command buffer and the timeout t to
\* sendcommand_andack; the log of the bus starts anew with the call.
TagCall(o, command, t) ==
    /\ op' = o /\ cmd' = command /\ timeout' = t
    /\ pc' = "write"
    /\ timer' = 0 /\ polls' = 0
    /\ wres' = <<"none", "none">> /\ wobs' = <<NoObs, NoObs>>
    /\ bus' = <<>> /\ nwrites' = 0 /\ nacks' = 0 /\ ackbuf' = <<>>
    /\ hs_ret' = "none"

\* the operation returns to the function that called it: after a handshake
\* that succeeded it has read the response
TagReturn ==
    /\ pc' = "idle"
    /\ bus' = IF AfterHandshake(hs_ret) = "parseresponse"
              THEN Logged(bus, "resp") ELSE bus
    /\ UNCHANGED <<op, cmd, timeout, timer, polls, wres, wobs, nwrites, nacks,
                   ackbuf, hs_ret>>

\* readUserPages(config, buffer, bufsize) calls getModel, which reads page 3
ReadUserPages_Call ==
    /\ stage \in {"ntag_tag", "ntag_found"} /\ pc = "idle"
    /\ TagCall("initiatorDataExchange", DataExchangeCmd(<<NXP_CMD_READ, 3>>),
               DEFAULT_TIMEOUT)
    /\ stage' = "ntag_model"
    /\ UNCHANGED <<respkind, rawchk, packet, resp, pad, expected_data_len,
                   parse_ret, scratch, rbuf_size, receive, received_length,
                   rx_written, ret, tlvvars, recvars, ntag, ntag_bufsize,
                   ntag_pages, ntag_string>>

\* readUserPages from the response to that read up to its loop
ReadUserPages_Model ==
    /\ stage = "ntag_model" /\ pc = "hs_done"
    /\ \E q \in {piconfc_NTAG_read4Pages(hs_ret, ntag, 3, scratch,
                                          [i \in 0..15 |-> At(scratch, i)])} :
          \E p \in {piconfc_NTAG_read1Page(q, NoPage)} :
             \E st \in {UserPagesEntry(piconfc_NTAG_getModel(p))} :
                /\ ntag_pages' = st
                /\ scratch' = p.scratch
                /\ stage' = IF st.returned THEN "ntag_pages" ELSE "ntag_loop"
    /\ TagReturn
    /\ UNCHANGED <<respkind, rawchk, packet, resp, pad, expected_data_len,
                   parse_ret, rbuf_size, receive, received_length,
                   rx_written, ret, tlvvars, recvars, ntag, ntag_bufsize,
                   ntag_string>>

\* the top of a pass of the loop of readUserPages: the loop ends, or breaks
\* on a full buffer, and the function returns head; or read4Pages is called
ReadUserPages_Pass ==
    /\ stage = "ntag_loop" /\ pc = "idle"
    /\ IF PassReads(ntag_bufsize, ntag_pages)
       THEN /\ TagCall("initiatorDataExchange",
                       DataExchangeCmd(<<NXP_CMD_READ, ntag_pages.page>>),
                       DEFAULT_TIMEOUT)
            /\ UNCHANGED <<stage, ntag_pages>>
       ELSE /\ ntag_pages' = [ntag_pages EXCEPT !.returned = TRUE]
            /\ stage' = "ntag_pages"
            /\ UNCHANGED <<hsvars, op, pc, cmd>>
    /\ UNCHANGED <<respkind, rawchk, packet, resp, pad, expected_data_len,
                   parse_ret, scratch, rbuf_size, receive, received_length,
                   rx_written, ret, tlvvars, recvars, ntag, ntag_bufsize,
                   ntag_string>>

\* the rest of that pass, from the response to the read on
ReadUserPages_Read ==
    /\ stage = "ntag_loop" /\ pc = "hs_done"
    /\ \E q \in {piconfc_NTAG_read4Pages(hs_ret, ntag, ntag_pages.page, scratch,
                                          [i \in 0..15 |-> Unset])} :
          \E st \in {UserPagesStep(ntag_bufsize, ntag_pages, q)} :
             /\ ntag_pages' = st
             /\ scratch' = q.scratch
             /\ stage' = IF st.returned THEN "ntag_pages" ELSE "ntag_loop"
    /\ TagReturn
    /\ UNCHANGED <<respkind, rawchk, packet, resp, pad, expected_data_len,
                   parse_ret, rbuf_size, receive, received_length,
                   rx_written, ret, tlvvars, recvars, ntag, ntag_bufsize,
                   ntag_string>>

\* piconfc_readNTAG(config, timeout_ms, &string) calls readPassiveTargetID
ReadNTAG_Call ==
    /\ stage = "ntag_tag" /\ pc = "idle"
    /\ ntag_bufsize = ReadbufSize
    /\ \E t \in ReadTimeouts :
          TagCall("readPassiveTargetID",
                  PassiveTargetCmd(PN532_BAUD_ISO14443A), t)
    /\ stage' = "ntag_target"
    /\ UNCHANGED <<respkind, rawchk, packet, resp, pad, expected_data_len,
                   parse_ret, scratch, rbuf_size, receive, received_length,
                   rx_written, ret, tlvvars, recvars, ntag, ntag_bufsize,
                   ntag_pages, ntag_string>>

\* piconfc_readNTAG up to line 45: readPassiveTargetID leaves the chip's
\* response in scratch; without a target the function returns false before
\* any page is read
ReadNTAG_Target ==
    /\ stage = "ntag_target" /\ pc = "hs_done"
    /\ \E f \in TargetResponses, layout \in UidLayouts :
          \E r \in {piconfc_I2C_parseresponse(PN532_I2C_READY, f, 0, scratch, 20)} :
             \E id \in {piconfc_PN532_readPassiveTargetID(
                            r, [i \in 0..(UidSize - 1) |-> 0], 0, layout)} :
                LET found == AfterHandshake(hs_ret) = "parseresponse"
                             /\ id.ret = "true"
                    x == piconfc_readNTAG(found, 0, Buffer(<<>>, 0),
                                          NoTLVStruct, TRUE, TRUE, TRUE)
                IN  /\ scratch' = IF AfterHandshake(hs_ret) = "parseresponse"
                                  THEN r.buffer ELSE scratch
                    /\ IF found
                       THEN /\ ntag_string' = [NoString EXCEPT !.found = TRUE]
                            /\ stage' = "ntag_found"
                       ELSE /\ ntag_string' =
                                  [returns |-> x.returns, ret |-> x.ret,
                                   string |-> x.string, at |-> x.at,
                                   memlen |-> x.memlen, found |-> FALSE,
                                   mem |-> TRUE]
                            /\ stage' = "ntag_done"
    /\ TagReturn
    /\ UNCHANGED <<respkind, rawchk, packet, resp, pad, expected_data_len,
                   parse_ret, rbuf_size, receive, received_length,
                   rx_written, ret, tlvvars, recvars, ntag, ntag_bufsize,
                   ntag_pages>>

\* piconfc_readNTAG after its call readUserPages(config, readbuf,
\* sizeof(readbuf)) has returned
ReadNTAG_Decode ==
    /\ stage = "ntag_pages" /\ pc = "idle"
    /\ ntag_string.found
    /\ \E beyond \in BeyondBytes :
          \* the cells of readbuf after memlen hold beyond
          \E t \in {piconfc_NDEF_parseTLV(NoTLVStruct,
                                         Buffer(ntag_pages.stored, beyond),
                                         ntag_pages.head, 0)},
             mem1 \in BOOLEAN, mem2 \in BOOLEAN, b \in BOOLEAN :
             \E x \in {piconfc_readNTAG(TRUE, ntag_pages.head,
                                        Buffer(ntag_pages.stored, beyond), t,
                                        mem1, mem2, b)} :
                ntag_string' = [returns |-> x.returns, ret |-> x.ret,
                                string |-> x.string, at |-> x.at,
                                memlen |-> x.memlen, found |-> TRUE,
                                mem |-> mem1 /\ mem2]
    /\ stage' = "ntag_done"
    /\ UNCHANGED <<respkind, rawchk, sharedvars, hsvars, opvars, tlvvars,
                   recvars, ntag, ntag_bufsize, ntag_pages>>

\* fastReadPages(config, startpage, stoppage, buffer, bufsize) up to its
\* data exchange: 0 is returned at once when stoppage <= startpage
FastReadPages_Call ==
    /\ stage = "ntag_tag" /\ pc = "idle"
    /\ \E range \in FastRanges :
          /\ ntag_pages' = [startpage |-> range[1], stoppage |-> range[2],
                            ret |-> 0, stored |-> <<>>]
          /\ IF range[2] <= range[1]
             THEN /\ stage' = "ntag_fast"
                  /\ UNCHANGED <<hsvars, op, pc, cmd>>
             ELSE /\ stage' = "ntag_fastread"
                  /\ TagCall("initiatorDataExchange",
                             DataExchangeCmd(<<NXP_CMD_FASTREAD, range[1],
                                               range[2]>>),
                             DEFAULT_TIMEOUT)
    /\ UNCHANGED <<respkind, rawchk, packet, resp, pad, expected_data_len,
                   parse_ret, scratch, rbuf_size, receive, received_length,
                   rx_written, ret, tlvvars, recvars, ntag, ntag_bufsize,
                   ntag_string>>

\* fastReadPages from the response on
FastReadPages ==
    /\ stage = "ntag_fastread" /\ pc = "hs_done"
    /\ \E passes \in BOOLEAN :
          \E x \in {piconfc_NTAG_fastReadPages(
                        TagFastAnswer(ntag, ntag_pages.startpage,
                                      ntag_pages.stoppage, passes),
                        hs_ret, ntag_pages.startpage, ntag_pages.stoppage,
                        scratch, ntag_bufsize)} :
             /\ ntag_pages' = [ntag_pages EXCEPT !.ret = x.ret,
                                                 !.stored = x.stored]
             /\ scratch' = x.scratch
    /\ stage' = "ntag_fast"
    /\ TagReturn
    /\ UNCHANGED <<respkind, rawchk, packet, resp, pad, expected_data_len,
                   parse_ret, rbuf_size, receive, received_length,
                   rx_written, ret, tlvvars, recvars, ntag, ntag_bufsize,
                   ntag_string>>

\* writeUserData(config, buffer, bufsize) calls getModel, which reads page 3
WriteUserData_Call ==
    /\ stage = "ntag_tag" /\ pc = "idle"
    /\ TagCall("initiatorDataExchange", DataExchangeCmd(<<NXP_CMD_READ, 3>>),
               DEFAULT_TIMEOUT)
    /\ stage' = "ntag_wmodel"
    /\ UNCHANGED <<respkind, rawchk, packet, resp, pad, expected_data_len,
                   parse_ret, scratch, rbuf_size, receive, received_length,
                   rx_written, ret, tlvvars, recvars, ntag, ntag_bufsize,
                   ntag_pages, ntag_string>>

\* writeUserData from the response to that read up to its loop
WriteUserData_Model ==
    /\ stage = "ntag_wmodel" /\ pc = "hs_done"
    /\ \E q \in {piconfc_NTAG_read4Pages(hs_ret, ntag, 3, scratch,
                                          [i \in 0..15 |-> At(scratch, i)])} :
          \E p \in {piconfc_NTAG_read1Page(q, NoPage)} :
             /\ ntag_pages' = WriteUserDataEntry(piconfc_NTAG_getModel(p))
             /\ scratch' = p.scratch
    /\ stage' = "ntag_wloop"
    /\ TagReturn
    /\ UNCHANGED <<respkind, rawchk, packet, resp, pad, expected_data_len,
                   parse_ret, rbuf_size, receive, received_length,
                   rx_written, ret, tlvvars, recvars, ntag, ntag_bufsize,
                   ntag_string>>

\* the top of a pass of the loop of writeUserData: the function returns
\* when the pages or the data end; or writePage is called
WriteUserData_Pass ==
    /\ stage = "ntag_wloop" /\ pc = "idle"
    /\ IF PassWrites(ntag_bufsize, ntag_pages)
       THEN /\ TagCall("initiatorDataExchange",
                       DataExchangeCmd(WritePageCmd(ntag_pages.page,
                           [k \in 1..NTAG_PAGE_SIZE |->
                               WriteData(ntag_bufsize)[ntag_pages.head + k]])),
                       DEFAULT_TIMEOUT)
            /\ UNCHANGED <<stage, ntag_pages>>
       ELSE /\ ntag_pages' = WriteUserDataStep(ntag_bufsize, ntag_pages,
                                               [success |-> FALSE])
            /\ stage' = "ntag_written"
            /\ UNCHANGED <<hsvars, op, pc, cmd>>
    /\ UNCHANGED <<respkind, rawchk, packet, resp, pad, expected_data_len,
                   parse_ret, scratch, rbuf_size, receive, received_length,
                   rx_written, ret, tlvvars, recvars, ntag, ntag_bufsize,
                   ntag_string>>

\* the rest of that pass, from the response to the write on
WriteUserData_Write ==
    /\ stage = "ntag_wloop" /\ pc = "hs_done"
    /\ \E w \in {piconfc_NTAG_writePage(hs_ret, ntag, ntag_pages.page,
                                         SubSeq(cmd, 5, 8), scratch)} :
          \E st \in {WriteUserDataStep(ntag_bufsize, ntag_pages, w)} :
             /\ ntag_pages' = st
             /\ scratch' = w.scratch
             /\ ntag' = w.tag
             /\ stage' = IF st.returned THEN "ntag_written" ELSE "ntag_wloop"
    /\ TagReturn
    /\ UNCHANGED <<respkind, rawchk, packet, resp, pad, expected_data_len,
                   parse_ret, rbuf_size, receive, received_length,
                   rx_written, ret, tlvvars, recvars, ntag_bufsize, ntag_string>>

NTAGNext ==
    \/ HsWriteCommand
    \/ HsPoll1
    \/ HsReadAck
    \/ HsPoll2
    \/ ReadUserPages_Call
    \/ ReadUserPages_Model
    \/ ReadUserPages_Pass
    \/ ReadUserPages_Read
    \/ ReadNTAG_Call
    \/ ReadNTAG_Target
    \/ ReadNTAG_Decode
    \/ FastReadPages_Call
    \/ FastReadPages
    \/ WriteUserData_Call
    \/ WriteUserData_Model
    \/ WriteUserData_Pass
    \/ WriteUserData_Write

SpecNTAG == NTAGInit /\ [][NTAGNext]_vars

(***************************************************************************)
(* Claims about the frame codec (checked under SpecCodec)                  *)
(***************************************************************************)

\* C7: for every command payload of length n in 0..254, writecommand writes
\* one frame of exactly n+8 bytes, 00 00 FF LEN LCS D4 <payload> DCS 00, with
\* LEN = n+1, LCS = (-LEN) mod 256, DCS = (-(0xD4 + sum(payload))) mod 256, so
\* that (LEN + LCS) mod 256 = 0 and (0xD4 + sum(payload) + DCS) mod 256 = 0.
C7_CommandFrameLayout ==
    (stage # "input" /\ respkind # "raw" /\ Len(cmd) \in 0..254) =>
        LET n == Len(cmd)
            LEN == n + 1
            LCS == (0 - LEN) % 256
            DCS == (0 - (212 + SeqSum(cmd))) % 256
        IN  /\ Len(packet) = n + 8
            /\ packet = <<0, 0, 255, LEN, LCS, 212>> \o cmd \o <<DCS, 0>>
            /\ (packet[4] + packet[5]) % 256 = 0
            /\ (packet[6] + SeqSum(cmd) + packet[n + 7]) % 256 = 0
\* a frame of the longest payload, whose byte sum wraps, has been written
C7_Witness ==
    stage = "written" /\ Len(cmd) = 254 /\ SeqSum(cmd) > 255
    /\ Len(packet) = 262

\* C8: frame round-trip: for every payload P of length n in 1..250, when the
\* chip returns the well-formed frame 00 00 FF (n+1) LCS D5 P DCS 00 and
\* parseresponse is called with expected_data_len = n, it returns n and
\* afterwards buffer[0..n-1] equals P.
C8_FrameRoundTrip ==
    (/\ stage = "parsed"
     /\ respkind = "wellformed"
     /\ Len(cmd) \in 1..250
     /\ expected_data_len = Len(cmd)) =>
        /\ parse_ret = Len(cmd)
        /\ \A i \in 0..(Len(cmd) - 1) : At(scratch, i) = cmd[i + 1]

\* C9: checksum sensitivity: for every well-formed response frame, flipping
\* any single bit of any single payload byte makes parseresponse (called
\* with the frame's own data length) return 0.
C9_ChecksumSensitivity ==
    (/\ stage = "parsed"
     /\ respkind = "flipped"
     /\ expected_data_len = Len(cmd)) =>
        parse_ret = 0

\* C10: parseresponse returns a nonzero value only when all three
\* validations pass (bytes 0..2 are 00 00 FF; (LEN + LCS) mod 256 = 0;
\* (direction + payload bytes + DCS) mod 256 = 0), and then the value is
\* LEN-1; if any validation fails it returns 0.
C10_ParseReturnValue ==
    stage = "parsed" =>
        LET allpass == rawchk.pre /\ rawchk.lcs /\ rawchk.dcs
        IN  /\ parse_ret # 0 => (allpass /\ parse_ret = rawchk.len - 1)
            /\ ~allpass => parse_ret = 0

\* C11: parseresponse accepts a response frame (returns nonzero) only if the
\* frame's direction byte, byte 5, is 0xD5 (PN532 to host); a frame with any
\* other direction byte is rejected even when both checksums are consistent.
C11_DirectionChecked ==
    (stage = "parsed" /\ parse_ret # 0) => rawchk.dir = PN532_PN532TOHOST

(***************************************************************************)
(* Claims about the command/ACK handshake (checked under SpecHandshake,    *)
(* termination under FairHandshake)                                        *)
(***************************************************************************)
IsPrefixOf(a, b) == Len(a) <= Len(b) /\ \A i \in 1..Len(a) : a[i] = b[i]
\* the ready-wait read READY, on a poll the timeout allowed
ReadyInTime(o) == o.ready /\ o.count \in {"first", "later", "under", "limit"}

\* C3: in every execution of sendcommand_andack the bus operations occur in
\* this order and are never repeated: exactly one command-frame write; then
\* the status polls of the first ready-wait; then at most one ACK read, only
\* after a poll returned READY; then the status polls of the second
\* ready-wait, only after the ACK matched.  The frame is never re-sent and
\* the ACK is never re-read within one call.
C3_BusOrder ==
    /\ IsPrefixOf(bus, <<"write", "poll", "ack", "poll">>)
    /\ nwrites = (IF pc = "write" THEN 0 ELSE 1)
    /\ nacks <= 1
    /\ nacks = (IF Len(bus) >= 3 THEN 1 ELSE 0)
    /\ nacks = 1 => (wres[1] = "true" /\ wobs[1].ready)
    /\ Len(bus) = 4 => ackbuf = PN532_ACK
\* a call that went through all four phases and then timed out
C3_Witness ==
    /\ pc = "hs_done" /\ hs_ret = "false"
    /\ bus = <<"write", "poll", "ack", "poll">>
    /\ nwrites = 1 /\ nacks = 1

\* C4: sendcommand_andack returns true if and only if the first ready-wait
\* observed READY within the timeout, the six bytes read after the
\* discarded status byte equal 00 00 FF 00 FF 00, and the second ready-wait
\* observed READY within the same timeout; a timeout or any differing ACK
\* byte makes it return false.
C4_HandshakeResult ==
    pc = "hs_done" =>
        /\ hs_ret \in {"true", "false"}
        /\ hs_ret = "true" <=>
              (/\ ReadyInTime(wobs[1])
               /\ ackbuf = <<0, 0, 255, 0, 255, 0>>
               /\ ReadyInTime(wobs[2]))
\* a call that returned false because the last ACK byte alone differed
C4_Witness ==
    /\ pc = "hs_done" /\ hs_ret = "false"
    /\ wobs[1].ready
    /\ ackbuf = <<0, 0, 255, 0, 255, 1>>

\* C5: with timeout = 0, waitready never returns false: it keeps polling and
\* returns (true) only once a poll reads READY; while the chip does not
\* report READY the call does not return.
C5_ZeroTimeoutWaitsForever ==
    timeout = 0 =>
        /\ \A w \in 1..2 :
              /\ wres[w] # "false"
              /\ wres[w] = "true" => wobs[w].ready
        /\ hs_ret = "false" => (nacks = 1 /\ ackbuf # PN532_ACK)
        /\ polls > 0 => pc \in {"wait1", "wait2"}
\* with timeout 0 the first wait returned true after polls that were not READY
C5_Witness ==
    /\ timeout = 0
    /\ wres[1] = "true"
    /\ wobs[1] = [ready |-> TRUE, count |-> "later"]

\* C6 (safety part): with a timeout T > 0, a ready-wait in progress has slept
\* at most T times, a finished one made at most T+1 polls, and it returned
\* false exactly when it made T+1 polls that all read a non-READY status.
C6_Bounded ==
    timeout > 0 =>
        /\ pc \in {"wait1", "wait2"} => polls <= timeout
        /\ \A w \in 1..2 :
              wres[w] # "none" =>
                  /\ wobs[w].count \in {"under", "limit"}
                  /\ wres[w] = "false" <=>
                        (~wobs[w].ready /\ wobs[w].count = "limit")
\* C6: with any timeout T > 0, waitready terminates after at most T+1 status
\* polls (T sleeps of 1 ms) and returns false exactly when all of those polls
\* read a non-READY status, so sendcommand_andack always terminates when
\* T > 0, whatever the chip answers.
C6_WaitTerminates ==
    /\ []C6_Bounded
    /\ (timeout > 0) ~> (pc = "hs_done")
\* the second wait used up its whole timeout
C6_Witness ==
    /\ timeout > 0
    /\ pc = "hs_done" /\ hs_ret = "false"
    /\ wres = <<"true", "false">>
    /\ wobs[2] = [ready |-> FALSE, count |-> "limit"]

(***************************************************************************)
(* Claims about the PN532 operations (checked under Spec)                  *)
(***************************************************************************)

\* C1: initiatorDataExchange never writes more than rbuf_size bytes into the
\* caller's receive buffer, and on success *received_length <= rbuf_size,
\* for every response frame the chip may return.
C1_ReceiveBounded ==
    (pc = "returned" /\ op = "initiatorDataExchange") =>
        /\ rx_written <= rbuf_size
        /\ ret = "true" => received_length <= rbuf_size

\* C2: whenever parseresponse returns 0 inside initiatorDataExchange or
\* SAMConfiguration, the operation returns false and (for the data exchange)
\* stores no received length and copies no data to the caller.
C2_ZeroMeansNoPayload ==
    (/\ pc = "returned" /\ hs_ret = "true" /\ parse_ret = 0
     /\ op \in {"initiatorDataExchange", "SAMConfiguration"}) =>
        /\ ret = "false"
        /\ received_length = Unset
        /\ rx_written = 0
        /\ \A i \in DOMAIN receive : receive[i] = Unset

(***************************************************************************)
(* Claims about the TLV codec (checked under SpecTLV)                      *)
(***************************************************************************)
\* The TLV that starts at index k of a buffer of n bytes, read as the format
\* defines it: tag 0x03, a length byte (0xFF announces a 16-bit big-endian
\* length), the value, and the terminator 0xFE right after the value.
TLVAt(buf, n, k) ==
    LET long == k + 1 < n /\ At(buf, k + 1) = 255
        off == IF long THEN k + 4 ELSE k + 2
        len == IF long THEN At(buf, k + 2) * 256 + At(buf, k + 3)
               ELSE At(buf, k + 1)
    IN  [valid |-> /\ k < n /\ At(buf, k) = 3
                   /\ off <= n
                   /\ off + len < n
                   /\ At(buf, off + len) = 254,
         value_offset |-> off,
         value_length |-> len]

\* C12: TLV skip-on-false-positive: for every buffer with a 0x03 at offset 0
\* whose declared value is not terminated by 0xFE, followed by a valid TLV at
\* some offset k > 0, parseTLV(buf, 0) succeeds and reports the value_offset
\* and value_length of that TLV.
C12_SkipFalsePositive ==
    (/\ stage = "tlv_parsed" /\ tlv_start = 0
     /\ tlv_bufsize > 0 /\ At(tlv_buffer, 0) = 3
     /\ ~TLVAt(tlv_buffer, tlv_bufsize, 0).valid
     /\ \E k \in 1..(tlv_bufsize - 1) : TLVAt(tlv_buffer, tlv_bufsize, k).valid)
    => /\ tlv.ret
       /\ \E k \in 1..(tlv_bufsize - 1) :
             LET t == TLVAt(tlv_buffer, tlv_bufsize, k)
             IN  /\ t.valid
                 /\ tlv.value_offset = t.value_offset
                 /\ tlv.value_length = t.value_length

\* C13: TLV round-trip: for data of every size in {0, 1, 254, 255, 256, 65535}
\* and a result buffer of at least size+5 bytes, encodeTLV succeeds, using the
\* 1-byte length form when size < 255 and 0xFF plus the 16-bit big-endian
\* length when size >= 255, and parseTLV at start 0 on its output succeeds
\* with value_length = size and the value bytes equal to the data.
RoundTripSizes == {0, 1, 254, 255, 256, 65535}
C13_TLVRoundTrip ==
    LET size == Len(tlv_data)
    IN  (/\ stage \in {"tlv_encoded", "tlv_decoded"}
         /\ size \in RoundTripSizes
         /\ tlv_resultsize >= size + 5)
        => /\ tlv_encoded > 0
           /\ At(tlv_buffer, 0) = 3
           /\ size < 255 => At(tlv_buffer, 1) = size
           /\ size >= 255 => /\ At(tlv_buffer, 1) = 255
                             /\ At(tlv_buffer, 2) = size \div 256
                             /\ At(tlv_buffer, 3) = size % 256
           /\ stage = "tlv_decoded" =>
                 /\ tlv.ret
                 /\ tlv.value_length = size
                 /\ tlv.value_offset = IF size < 255 THEN 2 ELSE 4
                 /\ \A i \in 1..size :
                       At(tlv_buffer, tlv.value_offset + i - 1) = tlv_data[i]

\* C13 witness: data of 256 bytes went through both functions in the 3-byte
\* length form
C13_Witness ==
    /\ stage = "tlv_decoded"
    /\ Len(tlv_data) = 256
    /\ At(tlv_buffer, 1) = 255
    /\ tlv.ret /\ tlv.value_length = 256 /\ tlv.value_offset = 4

\* C14: encodeTLV returns 0 and writes nothing exactly when
\* resultsize < datasize + 5; otherwise it writes and returns datasize+3 bytes
\* (datasize < 255) or datasize+5 bytes (datasize >= 255), never more than
\* resultsize.
C14_EncodeCapacity ==
    LET datasize == Len(tlv_data)
        written == Len(tlv_buffer.bytes)
    IN  stage \in {"tlv_encoded", "tlv_decoded"} =>
           /\ tlv_encoded = 0 <=> tlv_resultsize < datasize + 5
           /\ tlv_encoded = 0 => written = 0
           /\ tlv_encoded # 0 =>
                 /\ tlv_encoded = written
                 /\ written = IF datasize < 255 THEN datasize + 3
                              ELSE datasize + 5
                 /\ written <= tlv_resultsize

\* C14 witness: the 3-byte length form filled a result buffer of exactly
\* datasize+5 bytes, and a call with one byte less was refused
C14_Witness ==
    /\ stage = "tlv_encoded"
    /\ Len(tlv_data) = 255
    /\ \/ tlv_resultsize = 260 /\ tlv_encoded = 260
       \/ tlv_resultsize = 259 /\ tlv_encoded = 0

(***************************************************************************)
(* Claims about the record codec (checked under SpecNDEF)                  *)
(***************************************************************************)
\* C15: for every buffer holding a well-formed message of N >= 1 records in
\* which only the last record has the Message-End bit set, messageLen
\* returns N: the record carrying Message-End is counted.
C15_MessageLenCounts ==
    stage = "ndef_counted" =>
        \A q \in ShapeSeqs :
            (ndef_buffer.bytes = WireMessage(q, 1) /\ ndef_bufsize = Len(ndef_buffer.bytes))
            => (ndef_count.returns /\ ndef_count.ret = Len(q))

\* C16: parseMessage returns k with 0 <= k <= messageLen(buffer); slots
\* 0..k-1 of the allocated array hold the results of successive parseRecord
\* calls, the first at offset 0 and each next at the offset the previous one
\* returned; k is smaller than the count only if the (k+1)-th parseRecord
\* call failed, and the records decoded before it are still handed to the
\* caller through *dest.  (Stated of the calls whose allocation succeeds.)
C16_ParseMessagePartial ==
    (stage = "ndef_message" /\ ndef_message.returns /\ heap_ok) =>
        LET k == ndef_message.ret
            count == piconfc_NDEF_messageLen(ndef_buffer, ndef_bufsize).ret
            calls == ndef_message.calls
        IN  /\ 0 <= k /\ k <= count
            /\ ndef_message.dest_set
            /\ Len(ndef_message.records) = k
            /\ Len(calls) >= k
            /\ \A j \in 1..k :
                  /\ calls[j].offset = IF j = 1 THEN 0 ELSE calls[j - 1].ret
                  /\ calls[j].ret # 0 - 1
                  /\ LET r == piconfc_NDEF_parseRecord(on_overflow, ndef_buffer,
                                  ndef_bufsize, calls[j].offset, NoRecord)
                     IN  r.ret = calls[j].ret
                         /\ ndef_message.records[j] = r.record
            /\ k < count =>
                  /\ Len(calls) = k + 1
                  /\ calls[k + 1].offset = IF k = 0 THEN 0 ELSE calls[k].ret
                  /\ calls[k + 1].ret = 0 - 1

\* C16 witness: one record was decoded, the second parseRecord call failed,
\* and the first record is in the array handed to the caller
C16_Witness ==
    /\ stage = "ndef_message" /\ ndef_message.returns /\ heap_ok
    /\ ndef_message.expected_records >= 2
    /\ ndef_message.ret = 1
    /\ Len(ndef_message.calls) = 2
    /\ ndef_message.dest_set /\ Len(ndef_message.records) = 1

\* C17: parseRecord rejects a record for insufficient length exactly when
\* fewer than 4 bytes remain from offset; a well-formed record that occupies
\* exactly the 4 remaining bytes (SR flag, type length 1, payload length 0,
\* one type byte) passes the length pre-check and is decoded.
C17_LengthPrecheck ==
    stage = "ndef_record" =>
        LET remaining == ndef_bufsize - ndef_offset
            flags == At(ndef_buffer, ndef_offset)
        IN  /\ ndef_record.why = "length" <=> remaining < 4
            /\ (/\ remaining = 4
                /\ BitOf(flags, 4) = 1 /\ BitOf(flags, 3) = 0
                /\ At(ndef_buffer, ndef_offset + 1) = 1
                /\ At(ndef_buffer, ndef_offset + 2) = 0)
               => ndef_record.ret = ndef_offset + 4

\* The record header at offset as the format defines it: where the payload
\* starts and whether its declared length (unsigned) runs past bufsize.
DeclaredPayload(buf, n, offset) ==
    LET flags == At(buf, offset)
        sr == BitOf(flags, 4) = 1
        il == BitOf(flags, 3) = 1
        lenat == offset + 2
        idat == lenat + (IF sr THEN 1 ELSE 4)
        hdrend == idat + (IF il THEN 1 ELSE 0)
        datastart == hdrend + At(buf, offset + 1) + (IF il THEN At(buf, idat) ELSE 0)
        len == IF sr THEN At(buf, lenat)
               ELSE BigEndian32(At(buf, lenat), At(buf, lenat + 1),
                                At(buf, lenat + 2), At(buf, lenat + 3))
    IN  [inside |-> hdrend <= n,
         extends |-> len < 0 \/ len > n - datastart]

\* C18: bounds safety of parseRecord: for every buffer, offset and declared
\* payload length (1-byte form, or 4-byte big-endian form 0..2^32-1), if the
\* payload would extend past bufsize the call returns -1, and in no case
\* does the call read a buffer index >= bufsize.
C18_RecordBounds ==
    stage = "ndef_record" =>
        LET d == DeclaredPayload(ndef_buffer, ndef_bufsize, ndef_offset)
        IN  /\ \A i \in ndef_record.reads : i < ndef_bufsize
            /\ (d.inside /\ d.extends) => ndef_record.ret = 0 - 1

\* C19: the record createRecord produces has a flags byte whose low 3 bits
\* equal tnf, whose SR bit (0x10) is set iff payloadlen < 256, whose IL bit
\* (0x08) is set iff idlen > 0 and whose MB, ME and CF bits (0x80, 0x40,
\* 0x20) are clear; *recordlen equals the number of bytes written,
\* 2 + (1 or 4) + (1 if idlen > 0) + typelen + idlen + payloadlen.
C19_CreateRecordFlags ==
    (stage = "rec_created" /\ rec_created.ret) =>
        LET flags == At(ndef_buffer, 0)
            typelen == Len(rec_args.type)
            idlen == Len(rec_args.id)
            payloadlen == Len(rec_args.payload)
        IN  /\ flags % 8 = rec_args.tnf
            /\ BitOf(flags, 4) = 1 <=> payloadlen < 256
            /\ BitOf(flags, 3) = 1 <=> idlen > 0
            /\ BitOf(flags, 7) = 0 /\ BitOf(flags, 6) = 0 /\ BitOf(flags, 5) = 0
            /\ rec_created.recordlen = Len(ndef_buffer.bytes)
            /\ rec_created.recordlen =
                  2 + (IF payloadlen < 256 THEN 1 ELSE 4)
                    + (IF idlen > 0 THEN 1 ELSE 0)
                    + typelen + idlen + payloadlen

\* C19 witness: a record with an id and a payload of 256 bytes was created
C19_Witness ==
    /\ stage = "rec_created" /\ rec_created.ret
    /\ Len(rec_args.payload) = 256 /\ rec_args.id # <<>>
    /\ BitOf(At(ndef_buffer, 0), 4) = 0 /\ BitOf(At(ndef_buffer, 0), 3) = 1

\* C20: record round-trip: for every payload whose first byte is 0x00, the
\* bytes createRecord(TNF_WELLKNOWN, type "U", no id, payload) produces are
\* decoded by parseRecord at offset 0 (bufsize = the record length), and
\* readPayloadString on the decoded record gives back the original bytes,
\* with no prefix text added.
C20_RecordRoundTrip ==
    (/\ stage \in {"rec_decoded", "rec_read"}
     /\ rec_args.tnf = TNF_WELLKNOWN /\ rec_args.type = <<85>>
     /\ rec_args.id = <<>>
     /\ rec_args.payload # <<>> /\ rec_args.payload[1] = 0)
    => /\ ndef_record.ret = rec_created.recordlen
       /\ ndef_record.record.data_length = Len(rec_args.payload)
       /\ (stage = "rec_read" /\ heap_ok) =>
             /\ ndef_string.ret
             /\ ndef_string.string = rec_args.payload

\* C20 witness: a payload of 256 bytes starting with 0x00 came back
C20_Witness ==
    /\ stage = "rec_read" /\ heap_ok
    /\ rec_args.tnf = TNF_WELLKNOWN /\ rec_args.type = <<85>>
    /\ rec_args.id = <<>>
    /\ Len(rec_args.payload) = 256 /\ rec_args.payload[1] = 0
    /\ ndef_string.ret /\ ndef_string.string = rec_args.payload

\* C21: for every WellKnown record of type "U" with a non-empty payload whose
\* first byte is the code c, readPayloadString fails without a string when
\* c >= 36, and for c in 0..35 gives URIPrefixes[c] followed by the payload
\* without its first byte.
C21_URIExpansion ==
    (/\ stage = "rec_read" /\ heap_ok
     /\ rec_args.tnf = TNF_WELLKNOWN /\ rec_args.type = <<85>>
     /\ rec_args.payload # <<>>)
    => LET c == rec_args.payload[1]
       IN  IF c >= 36
           THEN ~ndef_string.ret /\ ndef_string.string = <<>>
           ELSE /\ ndef_string.ret
                /\ ndef_string.string = URIPrefixes[c + 1] \o Tail(rec_args.payload)

\* C25: for every expected_data_len in 0..255, parseresponse makes one bus
\* read of expected_data_len + 9 bytes (the status byte and the
\* expected_data_len + 8 bytes of the frame); the count is not reduced modulo
\* 256 for a large expected_data_len.
C25_ReadLength ==
    stage = "parsed" => rawchk.nread = expected_data_len + 9

\* C24: in every PN532 command operation (firmwareVersion, SAMConfiguration,
\* setPassiveActivationRetries, readPassiveTargetID, initiatorDataExchange)
\* parseresponse is called only after sendcommand_andack returned true in
\* the same call; when the handshake fails the operation returns its failure
\* value without reading a response from the bus.
C24_ParseAfterHandshake ==
    /\ (\E k \in DOMAIN bus : bus[k] = "resp") =>
          (hs_ret = "true" /\ pc = "returned")
    /\ (pc = "returned" /\ hs_ret = "false") =>
          /\ ret = FailureValue(op)
          /\ \A k \in DOMAIN bus : bus[k] # "resp"
          /\ resp = <<>> /\ parse_ret = 0 /\ expected_data_len = 0
          /\ rx_written = 0 /\ received_length = Unset
\* C24 witness: readPassiveTargetID returned false after a handshake that
\* failed at the ACK, and no response was read from the bus
C24_Witness ==
    /\ pc = "returned" /\ op = "readPassiveTargetID"
    /\ hs_ret = "false" /\ nacks = 1 /\ ret = "false"
    /\ bus = <<"write", "poll", "ack">>
    /\ resp = <<>>

\* the first index >= start that holds the tag 0x03 (-1: none)
FirstTag(buf, n, start) ==
    LET hits == {i \in start..(n - 1) : At(buf, i) = 3}
    IN  IF hits = {} THEN 0 - 1 ELSE Least(hits)

\* C26: in parseTLV let h be the first index >= start holding 0x03.  If the
\* length byte at h+1 is not 0xFF and buffer[h+2+len] is not 0xFE, the result
\* is that of parseTLV(buffer, bufsize, h+1); if the length byte is 0xFF and
\* the byte at h+4+len16 is not 0xFE, the call returns false without
\* examining any later 0x03 tag.
C26_RetryAsymmetry ==
    stage = "tlv_parsed" =>
        LET h == FirstTag(tlv_buffer, tlv_bufsize, tlv_start)
            len == At(tlv_buffer, h + 1)
            len16 == At(tlv_buffer, h + 2) * 256 + At(tlv_buffer, h + 3)
            again == piconfc_NDEF_parseTLV(NoTLVStruct, tlv_buffer,
                                           tlv_bufsize, h + 1)
        IN  (h # 0 - 1 /\ h + 2 <= tlv_bufsize) =>
               /\ (len # 255 /\ At(tlv_buffer, h + 2 + len) # 254) =>
                     /\ Len(tlv.starts) >= 2 /\ tlv.starts[2] = h + 1
                     /\ tlv.ret = again.ret
                     /\ tlv.ret => /\ tlv.value_offset = again.value_offset
                                   /\ tlv.value_length = again.value_length
               /\ (len = 255 /\ At(tlv_buffer, h + 4 + len16) # 254) =>
                     /\ ~tlv.ret
                     /\ tlv.starts = <<tlv_start>>
                     /\ tlv.maxread = h + 4 + len16
\* C26 witness: the terminator of the first tag's 1-byte form was missing
\* and the retry one byte past that tag found the TLV behind it
C26_Witness ==
    /\ stage = "tlv_parsed" /\ tlv_start = 0
    /\ tlv_buffer.bytes = <<3, 0, 0, 3, 0, 254>>
    /\ tlv.starts = <<0, 1>> /\ tlv.ret
    /\ tlv.value_offset = 5 /\ tlv.value_length = 0

\* C27: every call of parseTLV terminates: each retry after a terminator
\* mismatch restarts the scan at an index strictly greater than the previous
\* start, so at most bufsize - start retries happen (none when start is not
\* below bufsize) before the call returns found or not-found.
C27_RetriesBounded ==
    stage = "tlv_parsed" =>
        /\ tlv.ret \in BOOLEAN
        /\ tlv.starts[1] = tlv_start
        /\ \A k \in 1..(Len(tlv.starts) - 1) :
              /\ tlv.starts[k] < tlv.starts[k + 1]
              /\ tlv.starts[k + 1] <= tlv_bufsize
        /\ Len(tlv.starts) - 1 <= Max(tlv_bufsize - tlv_start, 0)
\* C27 witness: three retries on a buffer of four tags, ending not-found
C27_Witness ==
    /\ stage = "tlv_parsed" /\ tlv_start = 0
    /\ tlv_buffer.bytes = <<3, 3, 3, 3>>
    /\ tlv.starts = <<0, 1, 2, 3>> /\ ~tlv.ret

\* C28: parseTLV never reads a buffer index outside 0..bufsize-1 (neither the
\* two length bytes of the 3-byte form nor the terminator probe at
\* value_offset + value_length), and whenever it returns true the value range
\* and its 0xFE terminator lie inside the buffer:
\* value_offset + value_length < bufsize.
C28_TLVReadsInside ==
    stage = "tlv_parsed" =>
        /\ tlv.maxread < tlv_bufsize
        /\ tlv.ret => tlv.value_offset + tlv.value_length < tlv_bufsize

\* C29: messageLen never reads a buffer index outside 0..bufsize-1 and always
\* returns a count >= 1, for every buffer content and size, including buffers
\* whose last record header or payload is cut short and records whose
\* declared 4-byte payload length is larger than the buffer.
C29_MessageLenSafe ==
    stage = "ndef_counted" =>
        /\ ndef_count.returns
        /\ ndef_count.ret >= 1
        /\ \A i \in ndef_count.reads : i >= 0 /\ i < ndef_bufsize

\* C30: for every record a successful parseRecord produced, readPayloadString
\* takes the prefix code only from inside the record's payload range
\* [data_offset, data_offset + data_length) and stores no more than the
\* total_length + 1 bytes it allocated; for a WellKnown "U" record with an
\* empty payload (data_length 0, data_offset 0) it does not read buffer[0]
\* as a prefix code.
C30_PrefixInsidePayload ==
    (stage \in {"ndef_read", "rec_read"} /\ ndef_record.ret # 0 - 1) =>
        LET record == ndef_record.record
        IN  /\ record.data_length <= 0 =>
                  record.data_offset \notin ndef_string.reads
            /\ ndef_string.ret => ndef_string.stored <= ndef_string.allocated

\* the bytes of the user pages 4..end_userpages of a tag
UserBytes(tag) ==
    [a \in 1..UserMemory(tag.model) |->
        TagPage(tag, 4 + ((a - 1) \div NTAG_PAGE_SIZE))[1 + ((a - 1) % NTAG_PAGE_SIZE)]]

\* C22: end-to-end: in piconfc_readNTAG the record decoder is applied to the
\* value range parseTLV extracted from the tag image, so for a tag image of
\* tag 0x03, a length byte (the record's 8 bytes, or the 9 of the
\* specification's example), one short WellKnown record of type "U" with
\* payload 01 'a' '.' 'z', and terminator 0xFE, the pipeline succeeds and
\* yields the string "http://www.a.z".
C22_EndToEnd ==
    (/\ stage = "ntag_done"
     /\ ntag.image \in {<<3, n>> \o URIRecord \o <<254>> : n \in {8, 9}}
     /\ ntag.model \in {MODEL_NTAG213, MODEL_NTAG215, MODEL_NTAG216}
     /\ ntag.fail = Unset
     /\ ntag_string.found /\ ntag_string.mem)
    => /\ ntag_string.returns
       /\ ntag_string.ret
       /\ ntag_string.string = ExpandedURI

\* C23: for a tag of a recognised model whose page reads all succeed,
\* readUserPages called with a buffer as large as the model's user memory
\* (888 bytes for NTAG216, pages 4..0xE1) stores every user page from page 4
\* through the model's last user page and returns that byte count, and for
\* every bufsize it never writes at or beyond buffer[bufsize].
C23_ReadsAllUserPages ==
    stage \in {"ntag_loop", "ntag_pages"} =>
        /\ (/\ stage = "ntag_pages"
            /\ EndUserPages(ntag.model) # 0
            /\ ntag.fail = Unset
            /\ ntag_bufsize = UserMemory(ntag.model))
           => /\ ntag_pages.head = UserMemory(ntag.model)
              /\ ntag_pages.stored = UserBytes(ntag)
        /\ ntag_pages.hi <= ntag_bufsize

====
